---- MODULE Spec2Model ----
(***************************************************************************)
(* Model of the release pipeline of release-script (src/src/release.js,    *)
(* the script that starts at line 639): preflight checks, version bump,    *)
(* test/build gate with revert, changelog, commit/tag/push, GitHub         *)
(* release, npm publish, and the satellite (bower / docs) mirror routine   *)
(* releaseAdRepo.  External commands are modelled by their effect on the   *)
(* working tree, the git index/HEAD/remote and the mirror repositories,    *)
(* and by a nondeterministic exit status.                                  *)
(***************************************************************************)
EXTENDS Integers, Sequences, FiniteSets, TLC

VARIABLES
    pc,              \* position of the script
    exitCode,        \* -1 while running, else the process exit status
    dryRunMode,      \* line 756
    argv,            \* parsed command line (lines 738-746)
    isPrivate,       \* line 661
    isCommitsChangelogUsed,  \* lines 666-673
    npmjson,         \* the in-memory manifest object (line 659)
    newVersion,      \* line 849
    versionAndNotes, \* line 903
    notesForRelease, \* lines 754, 903, 941
    changelogAlphaRemovedFlag, \* line 921
    disk,            \* files of the working tree this script touches
    index,           \* git index of the main repository
    head,            \* tree of the main repository's HEAD commit
    commits,         \* commits made on top of the initial HEAD
    tags,            \* tags of the main repository
    remote,          \* what has been pushed: [commits, tags]
    registry,        \* what has been published to the npm registry
    mirror,          \* the satellite repositories (remote side)
    srcContent,      \* contents of bowerRoot / docsRoot
    cwd,             \* process working directory
    dirStack,        \* shelljs pushd/popd stack
    request,         \* state of the GitHub release HTTP request
    call,            \* arguments of the running releaseAdRepo call
    round,           \* number of releaseAdRepo calls started
    trace,           \* ghost: every command executed or planned, in order
    start            \* ghost: the files and repositories as the run found them

vars == <<pc, exitCode, dryRunMode, argv, isPrivate, isCommitsChangelogUsed,
          npmjson, newVersion, versionAndNotes, notesForRelease,
          changelogAlphaRemovedFlag, disk, index, head,
          commits, tags, remote, registry, mirror, srcContent, cwd, dirStack, request,
          call, round, trace, start>>

-----------------------------------------------------------------------------
(* Values *)

UNDEFINED == "undefined"

\* an identifier of a pre-release segment: a number or a string
Num(n) == [isNum |-> TRUE, n |-> n, s |-> ""]
Str(s) == [isNum |-> FALSE, n |-> 0, s |-> s]

\* a version string that parses as a semantic version
SemVer(ma, mi, pa, pre) ==
    [kind |-> "semver", major |-> ma, minor |-> mi, patch |-> pa, pre |-> pre, text |-> ""]
\* a version string that does not parse
Text(t) == [kind |-> "text", major |-> 0, minor |-> 0, patch |-> 0, pre |-> <<>>, text |-> t]
\* the null that semver.inc returns for an unparsable version
NULL == [kind |-> "null", major |-> 0, minor |-> 0, patch |-> 0, pre |-> <<>>, text |-> ""]

isValid(v) == v.kind = "semver"

-----------------------------------------------------------------------------
(* semver.inc, as used at lines 858 and 864 *)

RECURSIVE lastNumeric(_, _)
\* index of the right-most numeric identifier of pre at or below i, 0 if none
lastNumeric(pre, i) ==
    IF i = 0 THEN 0
    ELSE IF pre[i].isNum THEN i
    ELSE lastNumeric(pre, i - 1)

\* inc(v, 'pre', identifier)
incPre(pre, identifier) ==
    LET bumped ==
            IF pre = <<>> THEN <<Num(0)>>
            ELSE LET i == lastNumeric(pre, Len(pre))
                 IN  IF i = 0 THEN Append(pre, Num(0))
                     ELSE [pre EXCEPT ![i] = Num(pre[i].n + 1)]
    IN  IF identifier = UNDEFINED THEN bumped
        ELSE IF bumped[1] = Str(identifier)
             THEN IF Len(bumped) >= 2 /\ bumped[2].isNum
                  THEN bumped
                  ELSE <<Str(identifier), Num(0)>>
             ELSE <<Str(identifier), Num(0)>>

semverInc(v, release, identifier) ==
    IF ~isValid(v) THEN NULL
    ELSE CASE release = "major" ->
                SemVer(IF v.minor # 0 \/ v.patch # 0 \/ v.pre = <<>>
                       THEN v.major + 1 ELSE v.major, 0, 0, <<>>)
           [] release = "minor" ->
                SemVer(v.major,
                       IF v.patch # 0 \/ v.pre = <<>> THEN v.minor + 1 ELSE v.minor,
                       0, <<>>)
           [] release = "patch" ->
                SemVer(v.major, v.minor,
                       IF v.pre = <<>> THEN v.patch + 1 ELSE v.patch, <<>>)
           [] release = "pre" ->
                SemVer(v.major, v.minor, v.patch, incPre(v.pre, identifier))
           [] OTHER -> NULL

\* the version a command-line <version> argument denotes
parseVersion(s) ==
    CASE s = "3.0.0" -> SemVer(3, 0, 0, <<>>)
      [] OTHER -> Text(s)

-----------------------------------------------------------------------------
(* Bounded input domains *)

\* argv._[0]: absent, a bump kind, or an explicit version
BumpTypes == {UNDEFINED, "minor", "3.0.0"}
\* --preid
Preids == {UNDEFINED, "beta"}
\* --tag
NpmTags == {UNDEFINED, "canary"}
\* --notes
Notes == {UNDEFINED, "fix"}
\* npmjson.version when the script starts
OldVersions == {SemVer(1, 2, 3, <<>>)}

\* the two satellite targets (lines 678-684)
Targets == {"bower", "docs"}

\* a value that an `if`, `!` or `||` of the script takes as set
truthy(x) == x # UNDEFINED /\ x # ""

\* configOptions.bowerRepo, configOptions.docsRepo: unset, empty or a URL
RepoUrls == {UNDEFINED, "", "git@host:satellite.git"}
\* configOptions.bowerRoot, tmpBowerRepo, docsRoot, tmpDocsRepo
FolderOptions == {UNDEFINED, "", "custom"}

\* a manifest without a 'release-script' section (line 677: {})
NoOptions ==
    [bowerRepo |-> UNDEFINED, bowerRoot |-> UNDEFINED, tmpBowerRepo |-> UNDEFINED,
     docsRepo |-> UNDEFINED, docsRoot |-> UNDEFINED, tmpDocsRepo |-> UNDEFINED]

\* npmjson['release-script'] || {} (line 677), its folder fields from folders
ConfigOptions(folders) ==
    [bowerRepo : RepoUrls, bowerRoot : folders, tmpBowerRepo : folders,
     docsRepo : RepoUrls, docsRoot : folders, tmpDocsRepo : folders]

\* line 655: pwd() is an absolute path
repoRoot == "repoRoot"

\* path.join of two segments: empty segments are dropped, and a result of
\* length zero is returned as "."
pathJoin(a, b) ==
    IF a = "" THEN (IF b = "" THEN "." ELSE b)
    ELSE IF b = "" THEN a ELSE a \o "/" \o b

\* lines 678-679, 682-683
bowerRoot(configOptions) ==
    pathJoin(repoRoot, IF truthy(configOptions.bowerRoot)
                       THEN configOptions.bowerRoot ELSE "amd/")
tmpBowerRepo(configOptions) ==
    pathJoin(repoRoot, IF truthy(configOptions.tmpBowerRepo)
                       THEN configOptions.tmpBowerRepo ELSE "tmp-bower-repo")
docsRoot(configOptions) ==
    pathJoin(repoRoot, IF truthy(configOptions.docsRoot)
                       THEN configOptions.docsRoot ELSE "docs-built/")
tmpDocsRepo(configOptions) ==
    pathJoin(repoRoot, IF truthy(configOptions.tmpDocsRepo)
                       THEN configOptions.tmpDocsRepo ELSE "tmp-docs-repo")

\* line 902: `v${newVersion}` has length zero only if both of its parts have
vVersionEmpty(prefix, v) == prefix = "" /\ v.kind = "text" /\ v.text = ""

\* file names of a mirror repository / a source folder
MainSrcFiles == {"index.js"}
MainMirrorFiles == {"old.js"}

-----------------------------------------------------------------------------
(* Files and repositories *)

\* a manifest: its version, its other fields (base: "full", or "trimmed" once
\* lines 1004-1009 have deleted the build-only fields) and the layout of its
\* text; JSON.stringify(npmjson, null, 2) writes the layout "indent2"
Manifest(v, base) == [exists |-> TRUE, version |-> v, base |-> base, layout |-> "indent2"]
NoManifest == [exists |-> FALSE, version |-> NULL, base |-> "", layout |-> ""]

\* layouts of a package.json found on disk
Layouts == {"indent2", "indent4"}

\* JSON.parse(cat(packagePath)) (line 659): the fields, whatever the layout
parseManifest(file) == [file EXCEPT !.layout = "indent2"]

\* `${vVersion} ${notes}` or vVersion (line 903)
Title(v, notes) == [v |-> v, notes |-> notes]
NoTitle == Title(NULL, "")

\* the release notes: the title text, or the changelog tool's output for it
NotesText(title, fromChangelog) == [title |-> title, fromChangelog |-> fromChangelog]
NoNotes == NotesText(NoTitle, FALSE)

\* a changelog file: as it was, generated by this run, or absent
OrigFile == [exists |-> TRUE, title |-> NoTitle, args |-> ""]
NoFile == [exists |-> FALSE, title |-> NoTitle, args |-> ""]
Generated(title, args) == [exists |-> TRUE, title |-> title, args |-> args]

\* a scratch clone of a satellite repository
NoScratch == [exists |-> FALSE, files |-> {}, staged |-> {}, head |-> {}, tags |-> {}, ahead |-> <<>>]

NoCall == [target |-> "none", repo |-> "", srcFolder |-> "", tmpFolder |-> "",
           vVersion |-> NULL, ret |-> "none"]

\* the GitHub release request (lines 962-976)
NoRequest == [state |-> "none", tag_name |-> NULL, body |-> NoNotes, prerelease |-> FALSE]

Tree(d) == [pkg |-> d.pkg, changelog |-> d.changelog, changelogAlpha |-> d.changelogAlpha]

\* versionBumpOptions.preid (line 744)
preid == IF argv.onlyDocs THEN "docs" ELSE argv.preid

\* a trace entry: kind is "exec" (really run), "dry" (only printed by a safe
\* operation), "fs" (a shelljs file operation), "step", "http", "read" (a
\* configuration value consulted), "log" or "throw"
EvA(kind, cmd, arg, ok) ==
    [kind |-> kind, cmd |-> cmd, arg |-> arg, ok |-> ok, dir |-> cwd,
     repo |-> IF call.target = "none" THEN "main" ELSE call.target]
Ev(kind, cmd, ok) == EvA(kind, cmd, "", ok)
\* the entry of a configuration value that the run consults: "set" or "unset"
Read(name, isSet) == EvA("read", name, IF isSet THEN "set" ELSE "unset", TRUE)

-----------------------------------------------------------------------------
(* Initial state: the process has parsed its command line and manifest *)

Init ==
    /\ pc = "usage"
    /\ exitCode = -1
    /\ dryRunMode \in BOOLEAN
    /\ argv \in [type : BumpTypes, preid : Preids, onlyDocs : BOOLEAN,
                 skipVersionBumping : BOOLEAN]
    /\ isPrivate \in BOOLEAN
    /\ isCommitsChangelogUsed \in BOOLEAN
    /\ \E v \in OldVersions : npmjson = Manifest(v, "full")
    /\ newVersion = NULL
    /\ versionAndNotes = NoTitle
    /\ notesForRelease = NoNotes
    /\ changelogAlphaRemovedFlag = FALSE
    /\ \E alpha \in {OrigFile, NoFile} :
          disk = [pkg |-> npmjson, changelog |-> OrigFile, changelogAlpha |-> alpha,
                  altPkg |-> NoManifest, tmp |-> [t \in Targets |-> NoScratch]]
    /\ index = Tree(disk)
    /\ head = Tree(disk)
    /\ commits = <<>>
    /\ tags = {}
    /\ remote = [commits |-> <<>>, tags |-> {}]
    /\ registry = {}
    /\ mirror = [t \in Targets |-> [files |-> MainMirrorFiles, commits |-> <<>>, tags |-> {}]]
    /\ srcContent = [t \in Targets |-> MainSrcFiles]
    /\ cwd = "repoRoot"
    /\ dirStack = <<>>
    /\ request = NoRequest
    /\ call = NoCall
    /\ round = 0
    /\ trace = <<>>
    /\ start = [disk |-> disk, tree |-> head, mirror |-> mirror, commits |-> commits]

-----------------------------------------------------------------------------
(* ExecutionGateway: printErrorAndExit, run, safeRun (lines 765-787) *)

cfgVars == <<dryRunMode, argv, isPrivate, isCommitsChangelogUsed, srcContent, start>>
gitVars == <<index, head, commits, tags, remote>>
pubVars == <<registry, mirror, request, call, round>>
dirVars == <<cwd, dirStack>>
noteVars == <<versionAndNotes, notesForRelease, changelogAlphaRemovedFlag>>

\* faulty variant: exit() is called without the status
printErrorAndExitZero == pc' = "exit" /\ exitCode' = 0

\* printErrorAndExit (lines 765-768)
printErrorAndExit ==
    /\ pc' = "exit"
    /\ exitCode' = 1

\* faulty variant: safeRun ignores the mode
safeRunAlways == TRUE

\* safeRun (lines 776-782): does the command really run?
safeRunExecutes == ~dryRunMode

\* faulty variants: safeRm ignores the mode / never deletes
safeRmAlways == TRUE
safeRmNever == FALSE

\* safeRm (lines 784-787): does the deletion really happen?
safeRmDeletes == ~dryRunMode

\* the trace entry of safeRun(cmd) whose command, if run, exits ok
SafeEv(cmd, ok) ==
    IF safeRunExecutes THEN Ev("exec", cmd, ok) ELSE Ev("dry", cmd, TRUE)

-----------------------------------------------------------------------------
(* The statements of release() from the fetch check to the notes, in order
   (lines 840-903) *)

\* faulty variant: the test and build gate placed before the version bump
stageOrderTestFirst == <<"fetch", "test", "build", "bump", "add", "notes">>

stageOrder == <<"fetch", "bump", "add", "test", "build", "notes">>

\* the stage that follows stage s
stageAfter(s) ==
    LET i == CHOOSE k \in 1..Len(stageOrder) : stageOrder[k] = s
    IN  stageOrder[i + 1]

-----------------------------------------------------------------------------
(* Preflight (lines 748-752 and 834-845) *)

\* faulty variant: the check reads --preid itself, not the effective identifier
usageErrorRawPreid ==
    ~argv.skipVersionBumping /\ argv.type = UNDEFINED /\ argv.preid = UNDEFINED

\* line 748
usageError ==
    ~argv.skipVersionBumping /\ argv.type = UNDEFINED /\ preid = UNDEFINED

CheckUsage ==
    /\ pc = "usage"
    /\ IF usageError
       THEN pc' = "exit" /\ exitCode' = 1
       ELSE pc' = "clean" /\ exitCode' = exitCode
    /\ UNCHANGED <<cfgVars, gitVars, dirVars, npmjson, newVersion, noteVars,
                   disk, pubVars, trace>>

\* lines 835-838; dirty: git diff-index lists a changed file
CheckClean(dirty) ==
    /\ pc = "clean"
    /\ trace' = Append(trace, EvA("exec", "git diff-index", IF dirty THEN "M file" ELSE "", TRUE))
    /\ IF dirty
       THEN printErrorAndExit
       ELSE pc' = "fetch" /\ exitCode' = exitCode
    /\ UNCHANGED <<cfgVars, gitVars, dirVars, npmjson, newVersion, noteVars,
                   disk, pubVars>>

\* lines 841-845; behind: git status reports "behind N"
CheckFetched(behind) ==
    /\ pc = "fetch"
    /\ trace' = trace \o <<Ev("exec", "git fetch", TRUE),
                           EvA("exec", "git status -sb", IF behind THEN "behind 1" ELSE "", TRUE)>>
    /\ IF behind
       THEN printErrorAndExit
       ELSE pc' = stageAfter("fetch") /\ exitCode' = exitCode
    /\ UNCHANGED <<cfgVars, gitVars, dirVars, npmjson, newVersion, noteVars,
                   disk, pubVars>>

-----------------------------------------------------------------------------
(* Version bumping (lines 847-872) *)

\* faulty variant: without a bump kind a release version is first patch-bumped
resolveVersionPrepatch(oldVersion, type, id) ==
    LET base == IF type = UNDEFINED
                THEN IF oldVersion.pre = <<>> /\ id # UNDEFINED /\ id # ""
                     THEN semverInc(oldVersion, "patch", UNDEFINED)
                     ELSE oldVersion
                ELSE IF type \in {"major", "minor", "patch"}
                     THEN semverInc(oldVersion, type, UNDEFINED)
                     ELSE parseVersion(type)
    IN  IF id # UNDEFINED /\ id # ""
        THEN semverInc(base, "pre", id)
        ELSE base

\* lines 855-865
resolveVersion(oldVersion, type, id) ==
    LET base == IF type = UNDEFINED THEN oldVersion
                ELSE IF type \in {"major", "minor", "patch"}
                     THEN semverInc(oldVersion, type, UNDEFINED)
                     ELSE parseVersion(type)
    IN  IF id # UNDEFINED /\ id # ""
        THEN semverInc(base, "pre", id)
        ELSE base

\* faulty variant: --skip-version-bumping is not looked at
BumpVersionSkipIgnored ==
    /\ pc = "bump"
    /\ LET v == resolveVersion(npmjson.version, argv.type, preid)
       IN  /\ newVersion' = v
           /\ npmjson' = [npmjson EXCEPT !.version = v]
           /\ disk' = [disk EXCEPT !.pkg = npmjson']
           /\ trace' = trace \o <<Ev("step", "resolve version", TRUE),
                                  Ev("fs", "write package.json", TRUE)>>
           /\ IF v = NULL
              THEN pc' = "exit" /\ exitCode' = 1
              ELSE pc' = stageAfter("bump") /\ exitCode' = exitCode
    /\ UNCHANGED <<cfgVars, gitVars, dirVars, noteVars, pubVars>>

\* lines 848-870
BumpVersion ==
    /\ pc = "bump"
    /\ IF argv.skipVersionBumping
       THEN /\ newVersion' = npmjson.version
            /\ pc' = stageAfter("add")
            /\ UNCHANGED <<npmjson, disk, trace, exitCode>>
       ELSE LET v == resolveVersion(npmjson.version, argv.type, preid)
            IN  /\ newVersion' = v
                /\ npmjson' = [npmjson EXCEPT !.version = v]
                /\ disk' = [disk EXCEPT !.pkg = npmjson']
                /\ trace' = trace \o <<Ev("step", "resolve version", TRUE),
                                       Ev("fs", "write package.json", TRUE)>>
                /\ IF v = NULL   \* null.green throws (line 870)
                   THEN pc' = "exit" /\ exitCode' = 1
                   ELSE pc' = stageAfter("bump") /\ exitCode' = exitCode
    /\ UNCHANGED <<cfgVars, gitVars, dirVars, noteVars, pubVars>>

\* line 871
AddPackageJson(ok) ==
    /\ pc = "add"
    /\ trace' = Append(trace, SafeEv("git add package.json", ok))
    /\ IF ~safeRunExecutes
       THEN pc' = stageAfter("add") /\ UNCHANGED <<index, exitCode>>
       ELSE IF ok
            THEN /\ index' = [index EXCEPT !.pkg = disk.pkg]
                 /\ pc' = stageAfter("add") /\ exitCode' = exitCode
            ELSE printErrorAndExit /\ index' = index
    /\ UNCHANGED <<cfgVars, head, commits, tags, remote, dirVars, npmjson, newVersion, noteVars,
                   disk, pubVars>>

-----------------------------------------------------------------------------
(* BuildTestGate (lines 803-813 and 874-900) *)

\* faulty variant: --skip-tests is not looked at
testRunsDespiteSkip(hasScripts, hasTest, skipTests) == hasScripts /\ hasTest

\* lines 874-875: is `npm run test` run?
testRuns(hasScripts, hasTest, skipTests) == hasScripts /\ hasTest /\ ~skipTests

\* lines 887-898: the build command that is run, "" when the step is skipped
buildCommand(docsBuild, hasBuild, skipBuildStep) ==
    IF argv.onlyDocs /\ docsBuild THEN "npm run docs-build"
    ELSE IF hasBuild /\ ~skipBuildStep THEN "npm run build"
    ELSE ""

\* faulty variant: the revert misses `git reset HEAD .`
runAndCheckoutOnError(cmd, ok, next) ==
    /\ trace' = Append(trace, Ev("exec", cmd, ok))
    /\ pc' = IF ok THEN next ELSE "revert_checkout"

\* runAndGitRevertOnError (lines 803-813): exec(cmd), and on a non-zero exit
\* go on to the revert
runAndGitRevertOnError(cmd, ok, next) ==
    /\ trace' = Append(trace, Ev("exec", cmd, ok))
    /\ pc' = IF ok THEN next ELSE "revert_reset"

\* lines 874-884
RunTest(hasScripts, hasTest, skipTests, ok) ==
    /\ pc = "test"
    /\ IF ~hasScripts
       THEN pc' = stageAfter("build") /\ trace' = trace
       ELSE IF testRuns(hasScripts, hasTest, skipTests)
            THEN runAndGitRevertOnError("npm run test", ok, stageAfter("test"))
            ELSE pc' = stageAfter("test") /\ trace' = trace
    /\ UNCHANGED <<cfgVars, gitVars, dirVars, noteVars, exitCode, npmjson, newVersion,
                   disk, pubVars>>

\* lines 886-899; line 897 logs that the build step is skipped
RunBuild(docsBuild, hasBuild, skipBuildStep, ok) ==
    /\ pc = "build"
    /\ LET cmd == buildCommand(docsBuild, hasBuild, skipBuildStep)
       IN  IF cmd # ""
           THEN runAndGitRevertOnError(cmd, ok, stageAfter("build"))
           ELSE /\ pc' = stageAfter("build")
                /\ trace' = Append(trace, Ev("log", "Skipping npm run build step", TRUE))
    /\ UNCHANGED <<cfgVars, gitVars, dirVars, noteVars, exitCode, npmjson, newVersion,
                   disk, pubVars>>

\* line 808: run('git reset HEAD .')
RevertReset(ok) ==
    /\ pc = "revert_reset"
    /\ trace' = Append(trace, Ev("exec", "git reset HEAD .", ok))
    /\ IF ok
       THEN index' = head /\ pc' = "revert_checkout" /\ exitCode' = exitCode
       ELSE index' = index /\ printErrorAndExit
    /\ UNCHANGED <<cfgVars, head, commits, tags, remote, dirVars, noteVars, npmjson,
                   newVersion, disk, pubVars>>

\* lines 809-811: run('git checkout package.json'), then printErrorAndExit
RevertCheckout(ok) ==
    /\ pc = "revert_checkout"
    /\ trace' = Append(trace, Ev("exec", "git checkout package.json", ok))
    /\ disk' = IF ok THEN [disk EXCEPT !.pkg = index.pkg] ELSE disk
    /\ printErrorAndExit
    /\ UNCHANGED <<cfgVars, gitVars, dirVars, noteVars, npmjson, newVersion,
                   pubVars>>

-----------------------------------------------------------------------------
(* Notes and changelog (lines 902-934) *)

\* lines 902-903; notes is argv.notes (line 754)
ComposeNotes(notes) ==
    /\ pc = "notes"
    /\ versionAndNotes' = Title(newVersion, IF notes = UNDEFINED THEN "" ELSE notes)
    /\ notesForRelease' = NotesText(versionAndNotes', FALSE)
    /\ pc' = "changelog"
    /\ UNCHANGED <<cfgVars, gitVars, dirVars, changelogAlphaRemovedFlag, exitCode, npmjson,
                   newVersion, disk, pubVars, trace>>

\* lines 912-918
changelogToAlpha == preid # UNDEFINED /\ preid # ""
changelogArgs == IF changelogToAlpha THEN "" ELSE "--exclude-pre-releases"

\* lines 920-927: remove a present CHANGELOG-alpha.md, then run the generator
GenChangelog(ok) ==
    /\ pc = "changelog"
    /\ IF ~isCommitsChangelogUsed
       THEN pc' = "commit" /\ UNCHANGED <<disk, changelogAlphaRemovedFlag, trace, exitCode>>
       ELSE LET had == disk.changelogAlpha.exists
                removed == [disk EXCEPT !.changelogAlpha = NoFile]
                out == Generated(versionAndNotes, changelogArgs)
            IN  /\ changelogAlphaRemovedFlag' = had
                /\ trace' = trace
                      \o (IF had THEN <<Ev("fs", "rm CHANGELOG-alpha.md", TRUE)>> ELSE <<>>)
                      \o <<Ev("exec", "changelog --out", ok)>>
                /\ IF ok
                   THEN /\ disk' = IF changelogToAlpha
                                   THEN [removed EXCEPT !.changelogAlpha = out]
                                   ELSE [removed EXCEPT !.changelog = out]
                        /\ pc' = "add_changelog" /\ exitCode' = exitCode
                   ELSE disk' = removed /\ printErrorAndExit
    /\ UNCHANGED <<cfgVars, gitVars, dirVars, versionAndNotes, notesForRelease, npmjson,
                   newVersion, pubVars>>

\* line 928
AddChangelog(ok) ==
    /\ pc = "add_changelog"
    /\ trace' = Append(trace, SafeEv("git add CHANGELOG.md", ok))
    /\ IF ~safeRunExecutes
       THEN pc' = "add_alpha" /\ UNCHANGED <<index, exitCode>>
       ELSE IF ok
            THEN /\ index' = [index EXCEPT !.changelog = disk.changelog]
                 /\ pc' = "add_alpha" /\ exitCode' = exitCode
            ELSE printErrorAndExit /\ index' = index
    /\ UNCHANGED <<cfgVars, head, commits, tags, remote, dirVars, noteVars, npmjson,
                   newVersion, disk, pubVars>>

\* faulty variant: the removed file is staged only in a pre-release run
AddChangelogAlphaOnlyPreid(ok) ==
    /\ pc = "add_alpha"
    /\ IF ~changelogToAlpha
       THEN pc' = "commit" /\ UNCHANGED <<index, exitCode, trace>>
       ELSE /\ trace' = Append(trace, SafeEv("git add -A CHANGELOG-alpha.md", ok))
            /\ IF ~safeRunExecutes
               THEN pc' = "commit" /\ UNCHANGED <<index, exitCode>>
               ELSE IF ok
                    THEN /\ index' = [index EXCEPT !.changelogAlpha = disk.changelogAlpha]
                         /\ pc' = "commit" /\ exitCode' = exitCode
                    ELSE printErrorAndExit /\ index' = index
    /\ UNCHANGED <<cfgVars, head, commits, tags, remote, dirVars, noteVars, npmjson,
                   newVersion, disk, pubVars>>

\* lines 929-931
AddChangelogAlpha(ok) ==
    /\ pc = "add_alpha"
    /\ IF ~(changelogToAlpha \/ changelogAlphaRemovedFlag)
       THEN pc' = "commit" /\ UNCHANGED <<index, exitCode, trace>>
       ELSE /\ trace' = Append(trace, SafeEv("git add -A CHANGELOG-alpha.md", ok))
            /\ IF ~safeRunExecutes
               THEN pc' = "commit" /\ UNCHANGED <<index, exitCode>>
               ELSE IF ok
                    THEN /\ index' = [index EXCEPT !.changelogAlpha = disk.changelogAlpha]
                         /\ pc' = "commit" /\ exitCode' = exitCode
                    ELSE printErrorAndExit /\ index' = index
    /\ UNCHANGED <<cfgVars, head, commits, tags, remote, dirVars, noteVars, npmjson,
                   newVersion, disk, pubVars>>

-----------------------------------------------------------------------------
(* Commit, tag, push (lines 936-947) *)

\* faulty variant: a failed commit starts the revert of the version bump
CommitRevertOnError(ok) ==
    /\ pc = "commit"
    /\ trace' = Append(trace, SafeEv("git commit", ok))
    /\ IF ~safeRunExecutes
       THEN pc' = "tag_notes" /\ UNCHANGED <<head, commits>>
       ELSE IF ok
            THEN /\ head' = index
                 /\ commits' = Append(commits, [msg |-> newVersion, tree |-> index])
                 /\ pc' = "tag_notes"
            ELSE pc' = "revert_reset" /\ UNCHANGED <<head, commits>>
    /\ UNCHANGED <<cfgVars, index, tags, remote, dirVars, noteVars, npmjson,
                   newVersion, disk, pubVars, exitCode>>

\* line 936
Commit(ok) ==
    /\ pc = "commit"
    /\ trace' = Append(trace, SafeEv("git commit", ok))
    /\ IF ~safeRunExecutes
       THEN pc' = "tag_notes" /\ UNCHANGED <<head, commits, exitCode>>
       ELSE IF ok
            THEN /\ head' = index
                 /\ commits' = Append(commits, [msg |-> newVersion, tree |-> index])
                 /\ pc' = "tag_notes" /\ exitCode' = exitCode
            ELSE printErrorAndExit /\ UNCHANGED <<head, commits>>
    /\ UNCHANGED <<cfgVars, index, tags, remote, dirVars, noteVars, npmjson,
                   newVersion, disk, pubVars>>

\* line 941: notesForRelease = run(`changelog ... -s`)
TagNotes(ok) ==
    /\ pc = "tag_notes"
    /\ IF ~isCommitsChangelogUsed
       THEN pc' = "tag" /\ UNCHANGED <<notesForRelease, trace, exitCode>>
       ELSE /\ trace' = Append(trace, Ev("exec", "changelog -s", ok))
            /\ IF ok
               THEN /\ notesForRelease' = NotesText(versionAndNotes, TRUE)
                    /\ pc' = "tag" /\ exitCode' = exitCode
               ELSE printErrorAndExit /\ notesForRelease' = notesForRelease
    /\ UNCHANGED <<cfgVars, gitVars, dirVars, versionAndNotes, changelogAlphaRemovedFlag,
                   npmjson, newVersion, disk, pubVars>>

\* lines 942 and 944
Tag(ok) ==
    /\ pc = "tag"
    /\ trace' = Append(trace, SafeEv("git tag", ok))
    /\ IF ~safeRunExecutes
       THEN pc' = "push" /\ UNCHANGED <<tags, exitCode>>
       ELSE IF ok
            THEN /\ tags' = tags \cup {[name |-> newVersion,
                                        msg |-> NotesText(versionAndNotes, isCommitsChangelogUsed)]}
                 /\ pc' = "push" /\ exitCode' = exitCode
            ELSE printErrorAndExit /\ tags' = tags
    /\ UNCHANGED <<cfgVars, index, head, commits, remote, dirVars, noteVars, npmjson,
                   newVersion, disk, pubVars>>

\* faulty variant: the result of the push is not checked
PushUnchecked(ok) ==
    /\ pc = "push"
    /\ trace' = Append(trace, SafeEv("git push --follow-tags", ok))
    /\ remote' = IF safeRunExecutes /\ ok THEN [commits |-> commits, tags |-> tags] ELSE remote
    /\ pc' = "github"
    /\ UNCHANGED <<cfgVars, index, head, commits, tags, dirVars, noteVars, npmjson,
                   newVersion, disk, pubVars, exitCode>>

\* line 946
Push(ok) ==
    /\ pc = "push"
    /\ trace' = Append(trace, SafeEv("git push --follow-tags", ok))
    /\ IF ~safeRunExecutes
       THEN pc' = "github" /\ UNCHANGED <<remote, exitCode>>
       ELSE IF ok
            THEN /\ remote' = [commits |-> commits, tags |-> tags]
                 /\ pc' = "github" /\ exitCode' = exitCode
            ELSE printErrorAndExit /\ remote' = remote
    /\ UNCHANGED <<cfgVars, index, head, commits, tags, dirVars, noteVars, npmjson,
                   newVersion, disk, pubVars>>

-----------------------------------------------------------------------------
(* Working directory: shelljs pushd / popd *)

pushdOn(ds, dir) == [cwd |-> dir, stack |-> <<ds.cwd>> \o ds.stack]

popdOn(ds) ==
    IF ds.stack = <<>> THEN ds
    ELSE [cwd |-> Head(ds.stack), stack |-> Tail(ds.stack)]

dirState == [cwd |-> cwd, stack |-> dirStack]

\* faulty variant: popd is missing
popdMissing == UNCHANGED <<cwd, dirStack>>

pushd(dir) ==
    /\ cwd' = pushdOn(dirState, dir).cwd
    /\ dirStack' = pushdOn(dirState, dir).stack

popd ==
    /\ cwd' = popdOn(dirState).cwd
    /\ dirStack' = popdOn(dirState).stack

-----------------------------------------------------------------------------
(* GitHub release and npm publish (lines 949-1020) *)

\* line 957: is the request really sent?
githubPosts == ~dryRunMode

\* faulty variant: the publishing block is not guarded by --only-docs
GithubReleaseAlways(token) ==
    /\ pc = "github"
    /\ pc' = "npm"
    /\ IF ~token
       THEN /\ request' = request
            /\ trace' = Append(trace, Read("GITHUB_TOKEN", FALSE))
       ELSE IF githubPosts
            THEN /\ request' = [state |-> "inflight", tag_name |-> newVersion,
                                body |-> notesForRelease,
                                prerelease |-> (preid # UNDEFINED /\ preid # "")]
                 /\ trace' = trace \o <<Read("GITHUB_TOKEN", TRUE),
                                        Ev("http", "POST releases", TRUE)>>
            ELSE /\ request' = request
                 /\ trace' = trace \o <<Read("GITHUB_TOKEN", TRUE),
                                        Ev("dry", "POST releases", TRUE)>>
    /\ UNCHANGED <<cfgVars, gitVars, dirVars, noteVars, exitCode, npmjson, newVersion,
                   disk, registry, mirror, call, round>>

\* lines 949-990; token: GITHUB_TOKEN is set (line 687)
GithubRelease(token) ==
    /\ pc = "github"
    /\ IF argv.onlyDocs
       THEN pc' = "docs" /\ UNCHANGED <<request, trace>>
       ELSE /\ pc' = "npm"
            /\ IF ~token
               THEN /\ request' = request
                    /\ trace' = Append(trace, Read("GITHUB_TOKEN", FALSE))
               ELSE IF githubPosts
                    THEN /\ request' = [state |-> "inflight", tag_name |-> newVersion,
                                        body |-> notesForRelease,
                                        prerelease |-> (preid # UNDEFINED /\ preid # "")]
                         /\ trace' = trace \o <<Read("GITHUB_TOKEN", TRUE),
                                                Ev("http", "POST releases", TRUE)>>
                    ELSE /\ request' = request
                         /\ trace' = trace \o <<Read("GITHUB_TOKEN", TRUE),
                                                Ev("dry", "POST releases", TRUE)>>
    /\ UNCHANGED <<cfgVars, gitVars, dirVars, noteVars, exitCode, npmjson, newVersion,
                   disk, registry, mirror, call, round>>

\* line 745
npmTagName(tag) == IF tag # UNDEFINED /\ tag # "" THEN tag ELSE argv.preid

\* faulty variant: --tag alone selects the distribution tag
publishTagWithoutPreid(tag) == IF tag # UNDEFINED /\ tag # "" THEN tag ELSE ""

\* line 998: the distribution tag of the publish command, "" for plain `npm publish`
publishTag(tag) == IF preid # UNDEFINED /\ preid # "" THEN npmTagName(tag) ELSE ""

\* lines 1004-1009
trimmed(json) == [json EXCEPT !.base = "trimmed"]

\* faulty variant: the trimmed manifest is also written over the root manifest
PreparePublishOverwritesRoot(alt) ==
    /\ pc = "npm"
    /\ IF isPrivate
       THEN pc' = "bower" /\ UNCHANGED <<npmjson, disk, dirVars, trace>>
       ELSE /\ pc' = IF alt THEN "npm_publish_alt" ELSE "npm_publish"
            /\ IF alt
               THEN /\ npmjson' = trimmed(npmjson)
                    /\ disk' = [disk EXCEPT !.altPkg = npmjson', !.pkg = npmjson']
                    /\ pushd("altPkgRootFolder")
                    /\ trace' = trace \o <<Ev("fs", "write altPkgRootFolder/package.json", TRUE),
                                           Ev("fs", "pushd", TRUE)>>
               ELSE UNCHANGED <<npmjson, disk, dirVars, trace>>
    /\ UNCHANGED <<cfgVars, gitVars, noteVars, exitCode, newVersion, pubVars>>

\* lines 993-1012: skip when private, else prepare the alternate package root
PreparePublish(alt) ==
    /\ pc = "npm"
    /\ IF isPrivate
       THEN pc' = "bower" /\ UNCHANGED <<npmjson, disk, dirVars, trace>>
       ELSE /\ pc' = IF alt THEN "npm_publish_alt" ELSE "npm_publish"
            /\ IF alt
               THEN /\ npmjson' = trimmed(npmjson)
                    /\ disk' = [disk EXCEPT !.altPkg = npmjson']
                    /\ pushd("altPkgRootFolder")
                    /\ trace' = trace \o <<Ev("fs", "write altPkgRootFolder/package.json", TRUE),
                                           Ev("fs", "pushd", TRUE)>>
               ELSE UNCHANGED <<npmjson, disk, dirVars, trace>>
    /\ UNCHANGED <<cfgVars, gitVars, noteVars, exitCode, newVersion, pubVars>>

\* lines 1013 and 1016; tag is argv.tag
NpmPublish(tag, ok) ==
    /\ pc \in {"npm_publish_alt", "npm_publish"}
    /\ trace' = Append(trace, IF safeRunExecutes
                              THEN EvA("exec", "npm publish", publishTag(tag), ok)
                              ELSE EvA("dry", "npm publish", publishTag(tag), TRUE))
    /\ IF ~safeRunExecutes
       THEN /\ pc' = IF pc = "npm_publish_alt" THEN "npm_popd" ELSE "bower"
            /\ UNCHANGED <<registry, exitCode>>
       ELSE IF ok
            THEN /\ registry' = registry \cup
                       {[pkg |-> IF cwd = "altPkgRootFolder" THEN disk.altPkg ELSE disk.pkg,
                         distTag |-> publishTag(tag)]}
                 /\ pc' = IF pc = "npm_publish_alt" THEN "npm_popd" ELSE "bower"
                 /\ exitCode' = exitCode
            ELSE printErrorAndExit /\ registry' = registry
    /\ UNCHANGED <<cfgVars, gitVars, dirVars, noteVars, npmjson, newVersion, disk,
                   mirror, request, call, round>>

\* line 1014
AfterPublish ==
    /\ pc = "npm_popd"
    /\ popd
    /\ trace' = Append(trace, Ev("fs", "popd", TRUE))
    /\ pc' = "bower"
    /\ UNCHANGED <<cfgVars, gitVars, noteVars, exitCode, npmjson, newVersion, disk, pubVars>>

-----------------------------------------------------------------------------
(* releaseAdRepo: the satellite mirror routine (lines 815-831) *)

\* names that begin with a dot
DotFiles == {".git", ".npmignore"}

\* shelljs ls(dir) without -A: the entries whose name does not begin with a dot
ls(files) == files \ DotFiles

\* line 823: rm('-rf', ls(tmpFolder).filter(file => file !== '.git'))
wipe(files) == files \ (ls(files) \ {".git"})

\* line 824: cp('-R', srcFolder, tmpFolder); copyHidden: whether shelljs'
\* expansion of the source folder includes its top-level dot files
cpInto(files, src, copyHidden) ==
    files \cup (IF copyHidden THEN src ELSE ls(src))

scratch == disk.tmp[call.target]

\* faulty variant: the mirror is given the version the manifest had at the start
callReleaseAdRepoOldVersion(t, repo, srcFolder, tmpFolder, ret) ==
    /\ call' = [target |-> t, repo |-> repo,
                srcFolder |-> srcFolder, tmpFolder |-> tmpFolder,
                vVersion |-> start.disk.pkg.version, ret |-> ret]
    /\ round' = round + 1
    /\ pc' = "ad_reset"

\* the caller's side (lines 1024-1026 and 1055-1057)
callReleaseAdRepo(t, repo, srcFolder, tmpFolder, ret) ==
    /\ call' = [target |-> t, repo |-> repo,
                srcFolder |-> srcFolder, tmpFolder |-> tmpFolder,
                vVersion |-> newVersion, ret |-> ret]
    /\ round' = round + 1
    /\ pc' = "ad_reset"

\* faulty variant: the bower mirror is released whether or not bowerRepo is set
CallBowerUnconditional(configOptions) ==
    /\ pc = "bower"
    /\ trace' = Append(trace, Read("bowerRepo", truthy(configOptions.bowerRepo)))
    /\ IF ~isPrivate
       THEN callReleaseAdRepo("bower", configOptions.bowerRepo, bowerRoot(configOptions),
                              tmpBowerRepo(configOptions), "register")
       ELSE pc' = "register" /\ UNCHANGED <<call, round>>
    /\ UNCHANGED <<cfgVars, gitVars, dirVars, noteVars, exitCode, npmjson, newVersion,
                   disk, registry, mirror, request>>

\* lines 1022-1030; configOptions: the options of the manifest (lines 677-680)
CallBower(configOptions) ==
    /\ pc = "bower"
    /\ trace' = Append(trace, Read("bowerRepo", truthy(configOptions.bowerRepo)))
    /\ IF ~isPrivate /\ truthy(configOptions.bowerRepo)
       THEN callReleaseAdRepo("bower", configOptions.bowerRepo, bowerRoot(configOptions),
                              tmpBowerRepo(configOptions), "register")
       ELSE pc' = "register" /\ UNCHANGED <<call, round>>
    /\ UNCHANGED <<cfgVars, gitVars, dirVars, noteVars, exitCode, npmjson, newVersion,
                   disk, registry, mirror, request>>

\* lines 816-820: the parameter guard, then rm('-rf', tmpFolder)
AdReset ==
    /\ pc = "ad_reset"
    /\ IF \/ ~truthy(call.repo) \/ ~truthy(call.srcFolder) \/ ~truthy(call.tmpFolder)
          \/ vVersionEmpty("v", call.vVersion)
       THEN printErrorAndExit /\ UNCHANGED <<disk, trace>>
       ELSE /\ disk' = [disk EXCEPT !.tmp[call.target] = NoScratch]
            /\ trace' = Append(trace, Ev("fs", "rm -rf tmpFolder", TRUE))
            /\ pc' = "ad_clone" /\ exitCode' = exitCode
    /\ UNCHANGED <<cfgVars, gitVars, dirVars, noteVars, npmjson, newVersion, pubVars>>

\* line 821: run(`git clone ${repo} ${tmpFolder}`)
AdClone(ok) ==
    /\ pc = "ad_clone"
    /\ trace' = Append(trace, Ev("exec", "git clone", ok))
    /\ IF ok
       THEN /\ disk' = [disk EXCEPT !.tmp[call.target] =
                          [exists |-> TRUE,
                           files |-> mirror[call.target].files \cup {".git"},
                           staged |-> mirror[call.target].files,
                           head |-> mirror[call.target].files,
                           tags |-> mirror[call.target].tags,
                           ahead |-> <<>>]]
            /\ pc' = "ad_enter" /\ exitCode' = exitCode
       ELSE printErrorAndExit /\ disk' = disk
    /\ UNCHANGED <<cfgVars, gitVars, dirVars, noteVars, npmjson, newVersion, pubVars>>

\* faulty variant: the source folder is copied in before the old entries are deleted
AdEnterCopyFirst(copyHidden) ==
    /\ pc = "ad_enter"
    /\ pushd(call.tmpFolder)
    /\ disk' = [disk EXCEPT !.tmp[call.target].files =
                   wipe(cpInto(@, srcContent[call.target], copyHidden))]
    /\ trace' = trace \o <<Ev("fs", "pushd", TRUE), Ev("fs", "cp -R", TRUE),
                           Ev("fs", "rm all but .git", TRUE)>>
    /\ pc' = "ad_add"
    /\ UNCHANGED <<cfgVars, gitVars, noteVars, exitCode, npmjson, newVersion, pubVars>>

\* lines 822-824: pushd, delete all but .git, copy the source folder in
AdEnter(copyHidden) ==
    /\ pc = "ad_enter"
    /\ pushd(call.tmpFolder)
    /\ disk' = [disk EXCEPT !.tmp[call.target].files =
                   cpInto(wipe(@), srcContent[call.target], copyHidden)]
    /\ trace' = trace \o <<Ev("fs", "pushd", TRUE), Ev("fs", "rm all but .git", TRUE),
                           Ev("fs", "cp -R", TRUE)>>
    /\ pc' = "ad_add"
    /\ UNCHANGED <<cfgVars, gitVars, noteVars, exitCode, npmjson, newVersion, pubVars>>

\* safeRun of one git command inside the scratch clone; after: the clone once
\* the command has run
adSafeRun(cmd, ok, after, next) ==
    /\ trace' = Append(trace, SafeEv(cmd, ok))
    /\ IF ~safeRunExecutes
       THEN pc' = next /\ UNCHANGED <<disk, exitCode>>
       ELSE IF ok
            THEN /\ disk' = [disk EXCEPT !.tmp[call.target] = after]
                 /\ pc' = next /\ exitCode' = exitCode
            ELSE printErrorAndExit /\ disk' = disk

\* line 825
AdAdd(ok) ==
    /\ pc = "ad_add"
    /\ adSafeRun("git add -A .", ok, [scratch EXCEPT !.staged = scratch.files \ {".git"}],
                 "ad_commit")
    /\ UNCHANGED <<cfgVars, gitVars, dirVars, noteVars, npmjson, newVersion, pubVars>>

\* line 826
AdCommit(ok) ==
    /\ pc = "ad_commit"
    /\ adSafeRun("git commit", ok,
                 [scratch EXCEPT !.head = scratch.staged,
                                 !.ahead = Append(@, [msg |-> call.vVersion,
                                                      files |-> scratch.staged])],
                 "ad_tag")
    /\ UNCHANGED <<cfgVars, gitVars, dirVars, noteVars, npmjson, newVersion, pubVars>>

\* line 827
AdTag(ok) ==
    /\ pc = "ad_tag"
    /\ adSafeRun("git tag", ok,
                 [scratch EXCEPT !.tags = @ \cup {[name |-> call.vVersion,
                                                   msg |-> call.vVersion]}],
                 "ad_push")
    /\ UNCHANGED <<cfgVars, gitVars, dirVars, noteVars, npmjson, newVersion, pubVars>>

\* line 828
AdPush(ok) ==
    /\ pc = "ad_push"
    /\ trace' = Append(trace, SafeEv("git push --follow-tags", ok))
    /\ IF ~safeRunExecutes
       THEN pc' = "ad_leave" /\ UNCHANGED <<mirror, exitCode>>
       ELSE IF ok
            THEN /\ mirror' = [mirror EXCEPT ![call.target] =
                                  [files |-> scratch.head,
                                   commits |-> @.commits \o scratch.ahead,
                                   tags |-> scratch.tags]]
                 /\ pc' = "ad_leave" /\ exitCode' = exitCode
            ELSE printErrorAndExit /\ mirror' = mirror
    /\ UNCHANGED <<cfgVars, gitVars, dirVars, noteVars, npmjson, newVersion, disk,
                   registry, request, call, round>>

\* lines 829-830: popd, safeRm('-rf', tmpFolder), return
AdLeave ==
    /\ pc = "ad_leave"
    /\ popd
    /\ disk' = IF safeRmDeletes THEN [disk EXCEPT !.tmp[call.target] = NoScratch] ELSE disk
    /\ trace' = trace \o <<Ev("fs", "popd", TRUE),
                           Ev(IF safeRmDeletes THEN "fs" ELSE "dry", "safeRm -rf tmpFolder", TRUE)>>
    /\ pc' = call.ret
    /\ call' = NoCall
    /\ UNCHANGED <<cfgVars, gitVars, noteVars, exitCode, npmjson, newVersion,
                   registry, mirror, request, round>>

-----------------------------------------------------------------------------
(* Bower registration, documents site, end of the run (lines 1031-1062) *)

\* lines 1031-1051; bowerjson: "none" (no bower.json), "private" or "public";
\* whichBower: bower is installed; outcome of `bower register`:
\* "registered", "EDUPLICATE" or "error"
BowerRegister(bowerjson, whichBower, outcome) ==
    /\ pc = "register"
    /\ IF bowerjson # "public" \/ ~whichBower
       THEN pc' = "docs" /\ UNCHANGED <<trace, exitCode>>
       ELSE IF safeRunExecutes
            THEN \* run(command, true): a non-zero exit is not fatal
                 /\ trace' = Append(trace, Ev("exec", "bower register", outcome = "registered"))
                 /\ pc' = "docs" /\ exitCode' = exitCode
            ELSE \* safeRun returns undefined; output.indexOf throws (line 1042)
                 /\ trace' = trace \o <<Ev("dry", "bower register", TRUE),
                                        Ev("throw", "TypeError", FALSE)>>
                 /\ pc' = "exit" /\ exitCode' = 1
    /\ UNCHANGED <<cfgVars, gitVars, dirVars, noteVars, npmjson, newVersion, disk, pubVars>>

\* faulty variants: the condition misses the private flag / the identifier
docsReleasedWhenPrivate(docsRepo) == (preid = UNDEFINED \/ preid = "") /\ truthy(docsRepo)
docsReleasedDespitePreid(docsRepo) == ~isPrivate /\ truthy(docsRepo)

\* line 1055
docsReleased(docsRepo) == ~isPrivate /\ (preid = UNDEFINED \/ preid = "") /\ truthy(docsRepo)

\* lines 1054-1059; configOptions: the options of the manifest (lines 677-684)
CallDocs(configOptions) ==
    /\ pc = "docs"
    /\ trace' = Append(trace, Read("docsRepo", truthy(configOptions.docsRepo)))
    /\ IF docsReleased(configOptions.docsRepo)
       THEN callReleaseAdRepo("docs", configOptions.docsRepo, docsRoot(configOptions),
                              tmpDocsRepo(configOptions), "finish")
       ELSE pc' = "finish" /\ UNCHANGED <<call, round>>
    /\ UNCHANGED <<cfgVars, gitVars, dirVars, noteVars, exitCode, npmjson, newVersion,
                   disk, registry, mirror, request>>

\* lines 1061-1062: release() returns; the event loop takes over
Finish ==
    /\ pc = "finish"
    /\ pc' = "returned"
    /\ UNCHANGED <<cfgVars, gitVars, dirVars, noteVars, exitCode, npmjson, newVersion,
                   disk, pubVars, trace>>

\* faulty variant: a failed release request ends the process with code 1
GithubCallbackFatal(outcome) ==
    /\ pc = "returned"
    /\ request.state = "inflight"
    /\ request' = [request EXCEPT !.state = outcome]
    /\ IF outcome = "published"
       THEN UNCHANGED <<pc, exitCode>>
       ELSE pc' = "exit" /\ exitCode' = 1
    /\ UNCHANGED <<cfgVars, gitVars, dirVars, noteVars, npmjson, newVersion,
                   disk, registry, mirror, call, round, trace>>

\* lines 977-988: the response callback; it only logs
GithubCallback(outcome) ==
    /\ pc = "returned"
    /\ request.state = "inflight"
    /\ request' = [request EXCEPT !.state = outcome]
    /\ UNCHANGED <<pc, cfgVars, gitVars, dirVars, noteVars, exitCode, npmjson, newVersion,
                   disk, registry, mirror, call, round, trace>>

\* faulty variant: the process ends without waiting for the pending request
ProcessExitWhileInflight ==
    /\ pc = "returned"
    /\ pc' = "exit"
    /\ exitCode' = 0
    /\ UNCHANGED <<cfgVars, gitVars, dirVars, noteVars, npmjson, newVersion,
                   disk, pubVars, trace>>

\* nothing is pending any more: the process ends with status 0
ProcessExit ==
    /\ pc = "returned"
    /\ request.state # "inflight"
    /\ pc' = "exit"
    /\ exitCode' = 0
    /\ UNCHANGED <<cfgVars, gitVars, dirVars, noteVars, npmjson, newVersion,
                   disk, pubVars, trace>>

-----------------------------------------------------------------------------
(* The release script *)

Next ==
    \/ CheckUsage
    \/ \E dirty \in BOOLEAN : CheckClean(dirty)
    \/ \E behind \in BOOLEAN : CheckFetched(behind)
    \/ BumpVersion
    \/ \E ok \in BOOLEAN : AddPackageJson(ok)
    \/ \E hasScripts, hasTest, skipTests, ok \in BOOLEAN :
          RunTest(hasScripts, hasTest, skipTests, ok)
    \/ \E docsBuild, hasBuild, skipBuildStep, ok \in BOOLEAN :
          RunBuild(docsBuild, hasBuild, skipBuildStep, ok)
    \/ \E ok \in BOOLEAN : RevertReset(ok)
    \/ \E ok \in BOOLEAN : RevertCheckout(ok)
    \/ \E notes \in Notes : ComposeNotes(notes)
    \/ \E ok \in BOOLEAN : GenChangelog(ok)
    \/ \E ok \in BOOLEAN : AddChangelog(ok)
    \/ \E ok \in BOOLEAN : AddChangelogAlpha(ok)
    \/ \E ok \in BOOLEAN : Commit(ok)
    \/ \E ok \in BOOLEAN : TagNotes(ok)
    \/ \E ok \in BOOLEAN : Tag(ok)
    \/ \E ok \in BOOLEAN : Push(ok)
    \/ \E token \in BOOLEAN : GithubRelease(token)
    \/ \E alt \in BOOLEAN : PreparePublish(alt)
    \/ \E tag \in NpmTags, ok \in BOOLEAN : NpmPublish(tag, ok)
    \/ AfterPublish
    \/ \E configOptions \in ConfigOptions({UNDEFINED}) : CallBower(configOptions)
    \/ AdReset
    \/ \E ok \in BOOLEAN : AdClone(ok)
    \/ \E copyHidden \in BOOLEAN : AdEnter(copyHidden)
    \/ \E ok \in BOOLEAN : AdAdd(ok)
    \/ \E ok \in BOOLEAN : AdCommit(ok)
    \/ \E ok \in BOOLEAN : AdTag(ok)
    \/ \E ok \in BOOLEAN : AdPush(ok)
    \/ AdLeave
    \/ \E bowerjson \in {"none", "private", "public"}, whichBower \in BOOLEAN,
          outcome \in {"registered", "EDUPLICATE", "error"} :
          BowerRegister(bowerjson, whichBower, outcome)
    \/ \E configOptions \in ConfigOptions({UNDEFINED}) : CallDocs(configOptions)
    \/ Finish
    \/ \E outcome \in {"error", "Unauthorized", "published"} : GithubCallback(outcome)
    \/ ProcessExit

Spec == Init /\ [][Next]_vars

-----------------------------------------------------------------------------
(* Successive releases: the script is started again after a run that ended
   with status 0, on the files and repositories the run before left.  Every
   command of the main repository succeeds; the commands of the mirror
   routine may fail. *)

\* the number of releases made in succession
MaxReleases == 2

\* what the build leaves in a source folder (bowerRoot, docsRoot)
SrcContents == {{"index.js"}, {".npmignore", "index.js"}}

InitMirror ==
    /\ pc = "usage"
    /\ exitCode = -1
    /\ dryRunMode = FALSE
    /\ argv = [type |-> "minor", preid |-> UNDEFINED, onlyDocs |-> FALSE,
               skipVersionBumping |-> FALSE]
    /\ isPrivate = FALSE
    /\ isCommitsChangelogUsed \in BOOLEAN
    /\ \E v \in OldVersions : npmjson = Manifest(v, "full")
    /\ newVersion = NULL
    /\ versionAndNotes = NoTitle
    /\ notesForRelease = NoNotes
    /\ changelogAlphaRemovedFlag = FALSE
    /\ \E alpha \in {OrigFile, NoFile} :
          disk = [pkg |-> npmjson, changelog |-> OrigFile, changelogAlpha |-> alpha,
                  altPkg |-> NoManifest, tmp |-> [t \in Targets |-> NoScratch]]
    /\ index = Tree(disk)
    /\ head = Tree(disk)
    /\ commits = <<>>
    /\ tags = {}
    /\ remote = [commits |-> <<>>, tags |-> {}]
    /\ registry = {}
    /\ mirror = [t \in Targets |-> [files |-> MainMirrorFiles, commits |-> <<>>, tags |-> {}]]
    /\ srcContent \in [Targets -> SrcContents]
    /\ cwd = "repoRoot"
    /\ dirStack = <<>>
    /\ request = NoRequest
    /\ call = NoCall
    /\ round = 0
    /\ trace = <<>>
    /\ start = [disk |-> disk, tree |-> head, mirror |-> mirror, commits |-> commits]

\* the module-level code of a new process (lines 639-760): the manifest is
\* read again from disk, everything else starts afresh; src: what the build
\* of this release will leave in the source folders
NextRelease(src) ==
    /\ pc = "exit" /\ exitCode = 0
    /\ Len(commits) < MaxReleases
    /\ pc' = "usage"
    /\ exitCode' = -1
    /\ npmjson' = parseManifest(disk.pkg)
    /\ newVersion' = NULL
    /\ versionAndNotes' = NoTitle
    /\ notesForRelease' = NoNotes
    /\ changelogAlphaRemovedFlag' = FALSE
    /\ cwd' = "repoRoot"
    /\ dirStack' = <<>>
    /\ request' = NoRequest
    /\ call' = NoCall
    /\ srcContent' = src
    /\ trace' = <<>>
    /\ start' = [disk |-> disk, tree |-> head, mirror |-> mirror, commits |-> commits]
    /\ UNCHANGED <<dryRunMode, argv, isPrivate, isCommitsChangelogUsed, disk, gitVars,
                   registry, mirror, round>>

NextMirror ==
    \/ CheckUsage
    \/ CheckClean(FALSE)
    \/ CheckFetched(FALSE)
    \/ BumpVersion
    \/ AddPackageJson(TRUE)
    \/ RunTest(TRUE, TRUE, FALSE, TRUE)
    \/ RunBuild(FALSE, TRUE, FALSE, TRUE)
    \/ ComposeNotes(UNDEFINED)
    \/ GenChangelog(TRUE)
    \/ AddChangelog(TRUE)
    \/ AddChangelogAlpha(TRUE)
    \/ Commit(TRUE)
    \/ TagNotes(TRUE)
    \/ Tag(TRUE)
    \/ Push(TRUE)
    \/ GithubRelease(FALSE)
    \/ PreparePublish(FALSE)
    \/ NpmPublish(UNDEFINED, TRUE)
    \/ \E configOptions \in ConfigOptions({UNDEFINED}) : CallBower(configOptions)
    \/ AdReset
    \/ \E ok \in BOOLEAN : AdClone(ok)
    \/ \E copyHidden \in BOOLEAN : AdEnter(copyHidden)
    \/ \E ok \in BOOLEAN : AdAdd(ok)
    \/ \E ok \in BOOLEAN : AdCommit(ok)
    \/ \E ok \in BOOLEAN : AdTag(ok)
    \/ \E ok \in BOOLEAN : AdPush(ok)
    \/ AdLeave
    \/ BowerRegister("none", FALSE, "registered")
    \/ \E configOptions \in ConfigOptions({UNDEFINED}) : CallDocs(configOptions)
    \/ Finish
    \/ ProcessExit
    \/ \E src \in [Targets -> SrcContents] : NextRelease(src)

SpecMirror == InitMirror /\ [][NextMirror]_vars

-----------------------------------------------------------------------------
(* Version resolution over a wider domain of versions and arguments: Live
   releases of a public package in which every command succeeds, the script
   started again on the manifest the release before wrote. *)

\* npmjson.version when the script starts
CurrentCores == {<<1, 2, 3>>, <<1, 3, 0>>, <<2, 0, 0>>}
CurrentPres == {<<>>, <<Str("beta"), Num(0)>>, <<Str("beta"), Num(5)>>,
                <<Str("alpha"), Num(1)>>, <<Str("docs"), Num(2)>>, <<Str("beta")>>,
                <<Num(0)>>}
CurrentVersions == {SemVer(c[1], c[2], c[3], p) : c \in CurrentCores, p \in CurrentPres}

\* argv._[0] and --preid
VersionBumpTypes == {UNDEFINED, "major", "minor", "patch", "3.0.0", "foo"}
VersionPreids == {UNDEFINED, "alpha", "beta"}

InitVersion ==
    /\ pc = "usage"
    /\ exitCode = -1
    /\ dryRunMode = FALSE
    /\ argv \in [type : VersionBumpTypes, preid : VersionPreids, onlyDocs : BOOLEAN,
                 skipVersionBumping : BOOLEAN]
    /\ isPrivate = FALSE
    /\ isCommitsChangelogUsed = FALSE
    /\ \E v \in CurrentVersions : npmjson = Manifest(v, "full")
    /\ newVersion = NULL
    /\ versionAndNotes = NoTitle
    /\ notesForRelease = NoNotes
    /\ changelogAlphaRemovedFlag = FALSE
    /\ disk = [pkg |-> npmjson, changelog |-> OrigFile, changelogAlpha |-> NoFile,
               altPkg |-> NoManifest, tmp |-> [t \in Targets |-> NoScratch]]
    /\ index = Tree(disk)
    /\ head = Tree(disk)
    /\ commits = <<>>
    /\ tags = {}
    /\ remote = [commits |-> <<>>, tags |-> {}]
    /\ registry = {}
    /\ mirror = [t \in Targets |-> [files |-> MainMirrorFiles, commits |-> <<>>, tags |-> {}]]
    /\ srcContent = [t \in Targets |-> MainSrcFiles]
    /\ cwd = "repoRoot"
    /\ dirStack = <<>>
    /\ request = NoRequest
    /\ call = NoCall
    /\ round = 0
    /\ trace = <<>>
    /\ start = [disk |-> disk, tree |-> head, mirror |-> mirror, commits |-> commits]

NextVersion ==
    \/ CheckUsage
    \/ CheckClean(FALSE)
    \/ CheckFetched(FALSE)
    \/ BumpVersion
    \/ AddPackageJson(TRUE)
    \/ RunTest(TRUE, TRUE, FALSE, TRUE)
    \/ RunBuild(FALSE, TRUE, FALSE, TRUE)
    \/ ComposeNotes(UNDEFINED)
    \/ GenChangelog(TRUE)
    \/ Commit(TRUE)
    \/ TagNotes(TRUE)
    \/ Tag(TRUE)
    \/ Push(TRUE)
    \/ GithubRelease(FALSE)
    \/ PreparePublish(FALSE)
    \/ NpmPublish(UNDEFINED, TRUE)
    \/ CallBower(NoOptions)
    \/ BowerRegister("none", FALSE, "registered")
    \/ CallDocs(NoOptions)
    \/ Finish
    \/ ProcessExit
    \/ (~argv.skipVersionBumping /\ NextRelease(srcContent))

SpecVersion == InitVersion /\ [][NextVersion]_vars

-----------------------------------------------------------------------------
(* The earlier script that follows the README step list (src/src/release.js
   lines 414-637): tests before the version bump, one inline bower mirror.
   Its position is a "v2_" label; the bower mirror uses the files and
   repository of target "bower". *)

v2Vars == <<isPrivate, isCommitsChangelogUsed, dryRunMode, argv, srcContent, start,
            versionAndNotes, notesForRelease, changelogAlphaRemovedFlag, dirVars,
            request, round>>

\* the mirror the script works on from the clone to the final rm
V2Bower == [NoCall EXCEPT !.target = "bower", !.repo = "bowerRepo", !.srcFolder = "bowerRoot",
                          !.tmpFolder = "tmpBowerRepo"]

InitV2 ==
    /\ pc = "v2_usage"
    /\ exitCode = -1
    /\ dryRunMode \in BOOLEAN
    /\ argv \in [type : BumpTypes \cup {"foo"}, preid : Preids, onlyDocs : {FALSE},
                 skipVersionBumping : {FALSE}]
    /\ isPrivate = FALSE
    /\ isCommitsChangelogUsed \in BOOLEAN
    /\ \E v \in OldVersions : npmjson = Manifest(v, "full")
    /\ newVersion = NULL
    /\ versionAndNotes = NoTitle
    /\ notesForRelease = NoNotes
    /\ changelogAlphaRemovedFlag = FALSE
    /\ disk = [pkg |-> npmjson, changelog |-> OrigFile, changelogAlpha |-> NoFile,
               altPkg |-> NoManifest, tmp |-> [t \in Targets |-> NoScratch]]
    /\ index = Tree(disk)
    /\ head = Tree(disk)
    /\ commits = <<>>
    /\ tags = {}
    /\ remote = [commits |-> <<>>, tags |-> {}]
    /\ registry = {}
    /\ mirror = [t \in Targets |-> [files |-> MainMirrorFiles, commits |-> <<>>, tags |-> {}]]
    /\ srcContent = [t \in Targets |-> MainSrcFiles]
    /\ cwd = "repoRoot"
    /\ dirStack = <<>>
    /\ request = NoRequest
    /\ call = NoCall
    /\ round = 0
    /\ trace = <<>>
    /\ start = [disk |-> disk, tree |-> head, mirror |-> mirror, commits |-> commits]

\* lines 501-505 and 530
V2CheckUsage ==
    /\ pc = "v2_usage"
    /\ IF argv.type = UNDEFINED /\ (argv.preid = UNDEFINED \/ argv.preid = "")
       THEN pc' = "exit" /\ exitCode' = 1
       ELSE pc' = "v2_clean" /\ exitCode' = exitCode
    /\ UNCHANGED <<v2Vars, gitVars, npmjson, newVersion, disk, registry, mirror, call, trace>>

\* lines 533-536
V2CheckClean(dirty) ==
    /\ pc = "v2_clean"
    /\ trace' = Append(trace, EvA("exec", "git diff-index", IF dirty THEN "M file" ELSE "", TRUE))
    /\ IF dirty
       THEN printErrorAndExit
       ELSE pc' = "v2_fetch" /\ exitCode' = exitCode
    /\ UNCHANGED <<v2Vars, gitVars, npmjson, newVersion, disk, registry, mirror, call>>

\* lines 539-542; behind: the output of git fetch holds "[behind N]"
V2CheckFetched(behind) ==
    /\ pc = "v2_fetch"
    /\ trace' = Append(trace, EvA("exec", "git fetch", IF behind THEN "behind 1" ELSE "", TRUE))
    /\ IF behind
       THEN printErrorAndExit
       ELSE pc' = "v2_test" /\ exitCode' = exitCode
    /\ UNCHANGED <<v2Vars, gitVars, npmjson, newVersion, disk, registry, mirror, call>>

\* faulty variant: the exit status of the tests is not looked at
V2RunTestUnchecked(ok) ==
    /\ pc = "v2_test"
    /\ trace' = Append(trace, Ev("exec", "npm run test", ok))
    /\ pc' = "v2_bump" /\ exitCode' = exitCode
    /\ UNCHANGED <<v2Vars, gitVars, npmjson, newVersion, disk, registry, mirror, call>>

\* lines 544-547: run('npm run test')
V2RunTest(ok) ==
    /\ pc = "v2_test"
    /\ trace' = Append(trace, Ev("exec", "npm run test", ok))
    /\ IF ok
       THEN pc' = "v2_bump" /\ exitCode' = exitCode
       ELSE printErrorAndExit
    /\ UNCHANGED <<v2Vars, gitVars, npmjson, newVersion, disk, registry, mirror, call>>

\* lines 549-568
V2BumpVersion ==
    /\ pc = "v2_bump"
    /\ LET v == resolveVersion(npmjson.version, argv.type, argv.preid)
       IN  /\ newVersion' = v
           /\ npmjson' = [npmjson EXCEPT !.version = v]
           /\ disk' = [disk EXCEPT !.pkg = npmjson']
           /\ trace' = trace \o <<Ev("step", "resolve version", TRUE),
                                  Ev("fs", "write package.json", TRUE)>>
           /\ IF v = NULL   \* null.green throws (line 568)
              THEN pc' = "exit" /\ exitCode' = 1
              ELSE pc' = "v2_add" /\ exitCode' = exitCode
    /\ UNCHANGED <<v2Vars, gitVars, registry, mirror, call>>

\* safeRun (lines 521-527) of a command of the main repository: idx, hd, cs,
\* tg, rm are the index, HEAD tree, commits, tags and remote once it has run
v2SafeRun(cmd, ok, next, idx, hd, cs, tg, rm) ==
    /\ trace' = Append(trace, SafeEv(cmd, ok))
    /\ IF ~safeRunExecutes
       THEN pc' = next /\ UNCHANGED <<gitVars, exitCode>>
       ELSE IF ok
            THEN /\ index' = idx /\ head' = hd /\ commits' = cs /\ tags' = tg /\ remote' = rm
                 /\ pc' = next /\ exitCode' = exitCode
            ELSE printErrorAndExit /\ UNCHANGED gitVars

\* line 569
V2AddPackageJson(ok) ==
    /\ pc = "v2_add"
    /\ v2SafeRun("git add package.json", ok, "v2_build",
                 [index EXCEPT !.pkg = disk.pkg], head, commits, tags, remote)
    /\ UNCHANGED <<v2Vars, npmjson, newVersion, disk, registry, mirror, call>>

\* lines 571-582: exec('npm run build'), and on a non-zero exit the revert
V2RunBuild(ok) ==
    /\ pc = "v2_build"
    /\ trace' = Append(trace, Ev("exec", "npm run build", ok))
    /\ pc' = IF ok THEN "v2_changelog" ELSE "v2_revert_reset"
    /\ UNCHANGED <<v2Vars, gitVars, exitCode, npmjson, newVersion, disk, registry, mirror, call>>

\* line 577
V2RevertReset(ok) ==
    /\ pc = "v2_revert_reset"
    /\ trace' = Append(trace, Ev("exec", "git reset HEAD .", ok))
    /\ IF ok
       THEN index' = head /\ pc' = "v2_revert_checkout" /\ exitCode' = exitCode
       ELSE index' = index /\ printErrorAndExit
    /\ UNCHANGED <<v2Vars, head, commits, tags, remote, npmjson, newVersion, disk,
                   registry, mirror, call>>

\* lines 578-580
V2RevertCheckout(ok) ==
    /\ pc = "v2_revert_checkout"
    /\ trace' = Append(trace, Ev("exec", "git checkout package.json", ok))
    /\ disk' = IF ok THEN [disk EXCEPT !.pkg = index.pkg] ELSE disk
    /\ printErrorAndExit
    /\ UNCHANGED <<v2Vars, gitVars, npmjson, newVersion, registry, mirror, call>>

\* lines 587-588
V2GenChangelog(ok) ==
    /\ pc = "v2_changelog"
    /\ IF ~isCommitsChangelogUsed
       THEN pc' = "v2_commit" /\ UNCHANGED <<disk, trace, exitCode>>
       ELSE /\ trace' = Append(trace, Ev("exec", "changelog --out", ok))
            /\ IF ok
               THEN /\ disk' = [disk EXCEPT !.changelog = Generated(Title(newVersion, ""), "")]
                    /\ pc' = "v2_add_changelog" /\ exitCode' = exitCode
               ELSE printErrorAndExit /\ disk' = disk
    /\ UNCHANGED <<v2Vars, gitVars, npmjson, newVersion, registry, mirror, call>>

\* line 589
V2AddChangelog(ok) ==
    /\ pc = "v2_add_changelog"
    /\ v2SafeRun("git add CHANGELOG.md", ok, "v2_commit",
                 [index EXCEPT !.changelog = disk.changelog], head, commits, tags, remote)
    /\ UNCHANGED <<v2Vars, npmjson, newVersion, disk, registry, mirror, call>>

\* line 593
V2Commit(ok) ==
    /\ pc = "v2_commit"
    /\ v2SafeRun("git commit", ok, "v2_tag", index, index,
                 Append(commits, [msg |-> newVersion, tree |-> index]), tags, remote)
    /\ UNCHANGED <<v2Vars, npmjson, newVersion, disk, registry, mirror, call>>

\* line 597
V2Tag(ok) ==
    /\ pc = "v2_tag"
    /\ v2SafeRun("git tag", ok, "v2_push", index, head, commits,
                 tags \cup {[name |-> newVersion,
                             msg |-> NotesText(Title(newVersion, ""), TRUE)]}, remote)
    /\ UNCHANGED <<v2Vars, npmjson, newVersion, disk, registry, mirror, call>>

\* line 598
V2Push(ok) ==
    /\ pc = "v2_push"
    /\ v2SafeRun("git push", ok, "v2_push_tags", index, head, commits, tags,
                 [remote EXCEPT !.commits = commits])
    /\ UNCHANGED <<v2Vars, npmjson, newVersion, disk, registry, mirror, call>>

\* line 599
V2PushTags(ok) ==
    /\ pc = "v2_push_tags"
    /\ v2SafeRun("git push --tags", ok, "v2_npm", index, head, commits, tags,
                 [remote EXCEPT !.tags = tags])
    /\ UNCHANGED <<v2Vars, npmjson, newVersion, disk, registry, mirror, call>>

\* lines 602-605
V2NpmPublish(ok) ==
    /\ pc = "v2_npm"
    /\ trace' = Append(trace, SafeEv("npm publish", ok))
    /\ IF ~safeRunExecutes
       THEN pc' = "v2_bower" /\ UNCHANGED <<registry, exitCode>>
       ELSE IF ok
            THEN /\ registry' = registry \cup {[pkg |-> disk.pkg, distTag |-> ""]}
                 /\ pc' = "v2_bower" /\ exitCode' = exitCode
            ELSE printErrorAndExit /\ registry' = registry
    /\ UNCHANGED <<v2Vars, gitVars, npmjson, newVersion, disk, mirror, call>>

\* lines 608-611 and 627-631; bowerRepo: configOptions.bowerRepo is set (line 459)
V2CloneBower(bowerRepo, ok) ==
    /\ pc = "v2_bower"
    /\ IF ~bowerRepo
       THEN /\ trace' = Append(trace, Read("bowerRepo", FALSE))
            /\ pc' = "exit" /\ exitCode' = 0
            /\ UNCHANGED <<disk, call>>
       ELSE /\ call' = [V2Bower EXCEPT !.vVersion = newVersion]
            /\ trace' = trace \o <<Read("bowerRepo", TRUE),
                                   [Ev("fs", "rm -rf tmpFolder", TRUE) EXCEPT !.repo = "bower"],
                                   [Ev("exec", "git clone", ok) EXCEPT !.repo = "bower"]>>
            /\ IF ok
               THEN /\ disk' = [disk EXCEPT !.tmp["bower"] =
                                  [exists |-> TRUE,
                                   files |-> mirror["bower"].files \cup {".git"},
                                   staged |-> mirror["bower"].files,
                                   head |-> mirror["bower"].files,
                                   tags |-> mirror["bower"].tags,
                                   ahead |-> <<>>]]
                    /\ pc' = "v2_bower_enter" /\ exitCode' = exitCode
               ELSE /\ disk' = [disk EXCEPT !.tmp["bower"] = NoScratch]
                    /\ printErrorAndExit
    /\ UNCHANGED <<isPrivate, isCommitsChangelogUsed, dryRunMode, argv, srcContent, start,
                   versionAndNotes, notesForRelease, changelogAlphaRemovedFlag, dirVars,
                   request, round, gitVars, npmjson, newVersion, registry, mirror>>

\* lines 612-614
V2EnterBower(copyHidden) ==
    /\ pc = "v2_bower_enter"
    /\ pushd(call.tmpFolder)
    /\ disk' = [disk EXCEPT !.tmp["bower"].files =
                   cpInto(wipe(@), srcContent["bower"], copyHidden)]
    /\ trace' = trace \o <<Ev("fs", "pushd", TRUE), Ev("fs", "rm all but .git", TRUE),
                           Ev("fs", "cp -R", TRUE)>>
    /\ pc' = "v2_bower_add"
    /\ UNCHANGED <<isPrivate, isCommitsChangelogUsed, dryRunMode, argv, srcContent, start,
                   versionAndNotes, notesForRelease, changelogAlphaRemovedFlag,
                   request, round, gitVars, exitCode, npmjson, newVersion, registry,
                   mirror, call>>

\* lines 615-617
V2BowerGit(ok) ==
    /\ pc \in {"v2_bower_add", "v2_bower_commit", "v2_bower_tag"}
    /\ CASE pc = "v2_bower_add" ->
              adSafeRun("git add -A .", ok, [scratch EXCEPT !.staged = scratch.files \ {".git"}],
                        "v2_bower_commit")
         [] pc = "v2_bower_commit" ->
              adSafeRun("git commit", ok,
                        [scratch EXCEPT !.head = scratch.staged,
                                        !.ahead = Append(@, [msg |-> call.vVersion,
                                                             files |-> scratch.staged])],
                        "v2_bower_tag")
         [] pc = "v2_bower_tag" ->
              adSafeRun("git tag", ok,
                        [scratch EXCEPT !.tags = @ \cup {[name |-> call.vVersion,
                                                          msg |-> call.vVersion]}],
                        "v2_bower_push")
    /\ UNCHANGED <<v2Vars, gitVars, npmjson, newVersion, registry, mirror, call>>

\* lines 618-619
V2BowerPush(ok) ==
    /\ pc \in {"v2_bower_push", "v2_bower_push_tags"}
    /\ trace' = Append(trace, SafeEv(IF pc = "v2_bower_push" THEN "git push"
                                     ELSE "git push --tags", ok))
    /\ LET next == IF pc = "v2_bower_push" THEN "v2_bower_push_tags" ELSE "v2_bower_leave"
       IN  IF ~safeRunExecutes
           THEN pc' = next /\ UNCHANGED <<mirror, exitCode>>
           ELSE IF ok
                THEN /\ mirror' = [mirror EXCEPT !["bower"] =
                                      IF pc = "v2_bower_push"
                                      THEN [@ EXCEPT !.files = scratch.head,
                                                     !.commits = @ \o scratch.ahead]
                                      ELSE [@ EXCEPT !.tags = scratch.tags]]
                     /\ pc' = next /\ exitCode' = exitCode
                ELSE printErrorAndExit /\ mirror' = mirror
    /\ UNCHANGED <<v2Vars, gitVars, npmjson, newVersion, disk, registry, call>>

\* lines 620-631: popd, the rm of the scratch clone unless dry run, the end
V2LeaveBower ==
    /\ pc = "v2_bower_leave"
    /\ popd
    /\ disk' = IF ~dryRunMode THEN [disk EXCEPT !.tmp["bower"] = NoScratch] ELSE disk
    /\ trace' = trace \o <<Ev("fs", "popd", TRUE),
                           Ev(IF ~dryRunMode THEN "fs" ELSE "dry", "safeRm -rf tmpFolder", TRUE)>>
    /\ call' = NoCall
    /\ pc' = "exit" /\ exitCode' = 0
    /\ UNCHANGED <<isPrivate, isCommitsChangelogUsed, dryRunMode, argv, srcContent, start,
                   versionAndNotes, notesForRelease, changelogAlphaRemovedFlag,
                   request, round, gitVars, npmjson, newVersion, registry, mirror>>

NextV2 ==
    \/ V2CheckUsage
    \/ \E dirty \in BOOLEAN : V2CheckClean(dirty)
    \/ \E behind \in BOOLEAN : V2CheckFetched(behind)
    \/ \E ok \in BOOLEAN : V2RunTest(ok)
    \/ V2BumpVersion
    \/ \E ok \in BOOLEAN : V2AddPackageJson(ok)
    \/ \E ok \in BOOLEAN : V2RunBuild(ok)
    \/ \E ok \in BOOLEAN : V2RevertReset(ok)
    \/ \E ok \in BOOLEAN : V2RevertCheckout(ok)
    \/ \E ok \in BOOLEAN : V2GenChangelog(ok)
    \/ \E ok \in BOOLEAN : V2AddChangelog(ok)
    \/ \E ok \in BOOLEAN : V2Commit(ok)
    \/ \E ok \in BOOLEAN : V2Tag(ok)
    \/ \E ok \in BOOLEAN : V2Push(ok)
    \/ \E ok \in BOOLEAN : V2PushTags(ok)
    \/ \E ok \in BOOLEAN : V2NpmPublish(ok)
    \/ \E bowerRepo, ok \in BOOLEAN : V2CloneBower(bowerRepo, ok)
    \/ \E copyHidden \in BOOLEAN : V2EnterBower(copyHidden)
    \/ \E ok \in BOOLEAN : V2BowerGit(ok)
    \/ \E ok \in BOOLEAN : V2BowerPush(ok)
    \/ V2LeaveBower

SpecV2 == InitV2 /\ [][NextV2]_vars

-----------------------------------------------------------------------------
(* The manifest files: runs in which every command but the tests succeeds, on
   a package.json of any layout, with or without an alternate package root. *)

InitManifest ==
    /\ pc = "usage"
    /\ exitCode = -1
    /\ dryRunMode \in BOOLEAN
    /\ argv \in [type : BumpTypes, preid : Preids, onlyDocs : BOOLEAN,
                 skipVersionBumping : BOOLEAN]
    /\ isPrivate \in BOOLEAN
    /\ isCommitsChangelogUsed = FALSE
    /\ newVersion = NULL
    /\ versionAndNotes = NoTitle
    /\ notesForRelease = NoNotes
    /\ changelogAlphaRemovedFlag = FALSE
    /\ \E v \in OldVersions, l \in Layouts :
          /\ disk = [pkg |-> [Manifest(v, "full") EXCEPT !.layout = l],
                     changelog |-> OrigFile, changelogAlpha |-> NoFile,
                     altPkg |-> NoManifest, tmp |-> [t \in Targets |-> NoScratch]]
          /\ npmjson = parseManifest(disk.pkg)
    /\ index = Tree(disk)
    /\ head = Tree(disk)
    /\ commits = <<>>
    /\ tags = {}
    /\ remote = [commits |-> <<>>, tags |-> {}]
    /\ registry = {}
    /\ mirror = [t \in Targets |-> [files |-> MainMirrorFiles, commits |-> <<>>, tags |-> {}]]
    /\ srcContent = [t \in Targets |-> MainSrcFiles]
    /\ cwd = "repoRoot"
    /\ dirStack = <<>>
    /\ request = NoRequest
    /\ call = NoCall
    /\ round = 0
    /\ trace = <<>>
    /\ start = [disk |-> disk, tree |-> head, mirror |-> mirror, commits |-> commits]

NextManifest ==
    \/ CheckUsage
    \/ CheckClean(FALSE)
    \/ CheckFetched(FALSE)
    \/ BumpVersion
    \/ AddPackageJson(TRUE)
    \/ \E ok \in BOOLEAN : RunTest(TRUE, TRUE, FALSE, ok)
    \/ RunBuild(FALSE, TRUE, FALSE, TRUE)
    \/ RevertReset(TRUE)
    \/ RevertCheckout(TRUE)
    \/ ComposeNotes(UNDEFINED)
    \/ GenChangelog(TRUE)
    \/ Commit(TRUE)
    \/ TagNotes(TRUE)
    \/ Tag(TRUE)
    \/ Push(TRUE)
    \/ GithubRelease(FALSE)
    \/ \E alt \in BOOLEAN : PreparePublish(alt)
    \/ NpmPublish(UNDEFINED, TRUE)
    \/ AfterPublish
    \/ CallBower(NoOptions)
    \/ BowerRegister("none", FALSE, "registered")
    \/ CallDocs(NoOptions)
    \/ Finish
    \/ ProcessExit

SpecManifest == InitManifest /\ [][NextManifest]_vars

-----------------------------------------------------------------------------
(* The options of the manifest: every value the 'release-script' section can
   give to the repository URLs and the folders (lines 677-684), in runs where
   every command succeeds *)

NextOptions ==
    \/ CheckUsage
    \/ CheckClean(FALSE)
    \/ CheckFetched(FALSE)
    \/ BumpVersion
    \/ AddPackageJson(TRUE)
    \/ RunTest(TRUE, TRUE, FALSE, TRUE)
    \/ RunBuild(FALSE, TRUE, FALSE, TRUE)
    \/ ComposeNotes(UNDEFINED)
    \/ GenChangelog(TRUE)
    \/ AddChangelog(TRUE)
    \/ AddChangelogAlpha(TRUE)
    \/ Commit(TRUE)
    \/ TagNotes(TRUE)
    \/ Tag(TRUE)
    \/ Push(TRUE)
    \/ GithubRelease(FALSE)
    \/ PreparePublish(FALSE)
    \/ NpmPublish(UNDEFINED, TRUE)
    \/ \E configOptions \in ConfigOptions(FolderOptions) : CallBower(configOptions)
    \/ AdReset
    \/ AdClone(TRUE)
    \/ AdEnter(FALSE)
    \/ AdAdd(TRUE)
    \/ AdCommit(TRUE)
    \/ AdTag(TRUE)
    \/ AdPush(TRUE)
    \/ AdLeave
    \/ BowerRegister("none", FALSE, "registered")
    \/ \E configOptions \in ConfigOptions(FolderOptions) : CallDocs(configOptions)
    \/ Finish
    \/ ProcessExit

SpecOptions == Init /\ [][NextOptions]_vars

-----------------------------------------------------------------------------
(* Properties *)

Events == {trace[i] : i \in 1..Len(trace)}

Ran(cmd) == \E e \in Events : e.cmd = cmd /\ e.kind = "exec"
Planned(cmd) == \E e \in Events : e.cmd = cmd /\ e.kind = "dry"
Failed(cmds) == \E e \in Events : e.cmd \in cmds /\ e.kind = "exec" /\ ~e.ok

exited == pc = "exit"

\* the position of a trace entry in the list of main-repository actions,
\* 0 when it belongs to none of them
stageRank(e) ==
    CASE e.repo = "bower" -> 14
      [] e.repo = "docs" -> 15
      [] e.cmd = "git diff-index" -> 1
      [] e.cmd \in {"git fetch", "git status -sb"} -> 2
      [] e.cmd = "resolve version" -> 3
      [] e.cmd = "write package.json" -> 4
      [] e.cmd = "git add package.json" -> 5
      [] e.cmd = "npm run test" -> 6
      [] e.cmd \in {"npm run docs-build", "npm run build"} -> 7
      [] e.cmd \in {"rm CHANGELOG-alpha.md", "changelog --out", "git add CHANGELOG.md",
                    "git add -A CHANGELOG-alpha.md"} -> 8
      [] e.cmd = "git commit" -> 9
      [] e.cmd \in {"changelog -s", "git tag"} -> 10
      [] e.cmd = "git push --follow-tags" -> 11
      [] e.cmd = "POST releases" -> 12
      [] e.cmd \in {"write altPkgRootFolder/package.json", "pushd", "npm publish", "popd"} -> 13
      [] OTHER -> 0

\* the same, for the one command that defines each action
primaryRank(e) ==
    IF \/ /\ e.repo = "main"
          /\ e.cmd \in {"git diff-index", "git status -sb", "resolve version",
                        "write package.json", "git add package.json", "npm run test",
                        "npm run docs-build", "npm run build", "changelog --out",
                        "git commit", "git tag", "git push --follow-tags",
                        "POST releases", "npm publish"}
       \/ e.cmd = "git clone"
    THEN stageRank(e)
    ELSE 0

RECURSIVE ascending(_, _, _)
\* the non-zero members of rs ascend from last on (strictly, if strict)
ascending(rs, last, strict) ==
    IF rs = <<>> THEN TRUE
    ELSE IF Head(rs) = 0 THEN ascending(Tail(rs), last, strict)
    ELSE /\ IF strict THEN Head(rs) > last ELSE Head(rs) >= last
         /\ ascending(Tail(rs), Head(rs), strict)

gateCmds == {"npm run test", "npm run docs-build", "npm run build"}
revertCmds == {"git reset HEAD .", "git checkout package.json"}

manifestRestored ==
    /\ disk.pkg = start.disk.pkg
    /\ index.pkg = start.tree.pkg

\* C2 (as stated): when the test, docs-build or build command fails, the
\* process exits with code 1, the manifest on disk is as before the run and
\* no change to it is staged.
C2_GateFailureRestoresManifest ==
    (exited /\ Failed(gateCmds)) => (exitCode = 1 /\ manifestRestored)

\* C2 (amended): when the test, docs-build or build command fails, the process
\* exits with code 1, and the manifest on disk is as before the run with no
\* change to it staged unless one of the two revert commands itself failed.
C2_GateFailureRestoresManifestUnlessRevertFails ==
    (exited /\ Failed(gateCmds)) =>
        (exitCode = 1 /\ (manifestRestored \/ Failed(revertCmds)))

\* a Live run that wrote and staged the bumped manifest, failed in the gate
\* and reverted
C2_Witness ==
    /\ ~dryRunMode /\ exited /\ Failed(gateCmds) /\ ~Failed(revertCmds)
    /\ Ran("git add package.json") /\ Ran("git checkout package.json")
    /\ npmjson.version # start.disk.pkg.version
    /\ manifestRestored

vcsUnchanged ==
    /\ index = start.tree
    /\ head = start.tree
    /\ commits = <<>>
    /\ tags = {}
    /\ remote = [commits |-> <<>>, tags |-> {}]
    /\ mirror = start.mirror

\* C3 (as stated): after a DryRun run the manifest, the changelog files, the
\* alternate package root, the scratch directories and the version-control
\* state are as before the run.
C3_DryRunMutatesNothing ==
    (dryRunMode /\ exited) => (disk = start.disk /\ vcsUnchanged)

\* C3 (amended): a DryRun run never changes the version-control state (index,
\* commits, tags, remote) of the main repository or of a mirror repository and
\* publishes nothing; the files of the working tree are not protected.
C3_DryRunKeepsVersionControlState ==
    dryRunMode =>
        /\ vcsUnchanged /\ registry = {} /\ request.state = "none"
        /\ \A t \in Targets :
              disk.tmp[t].exists =>
                  /\ disk.tmp[t].staged = mirror[t].files
                  /\ disk.tmp[t].head = mirror[t].files
                  /\ disk.tmp[t].tags = mirror[t].tags
                  /\ disk.tmp[t].ahead = <<>>

\* a DryRun run that ended with status 0, planned the push and the mirror
\* commit, and left a bumped manifest and a scratch directory behind
C3_Witness ==
    /\ dryRunMode /\ exited /\ exitCode = 0
    /\ Planned("git push --follow-tags") /\ Planned("git add -A .")
    /\ disk.pkg # start.disk.pkg
    /\ \E t \in Targets : disk.tmp[t].exists

\* C4: a DryRun run reports the safe commands of the Live run of the same
\* configuration, to the end of the pipeline.  Both modes draw the same inputs
\* at every step, so the DryRun run must reach the end whenever nothing it
\* executes fails and the preflight passes, exactly as the Live run does.
C4_DryRunPlanMatchesLive ==
    (exited /\ Ran("git status -sb") /\ ~Failed({e.cmd : e \in Events})
            /\ \A e \in Events : e.arg \notin {"M file", "behind 1"})
        => exitCode = 0

\* commands that only the safe operations and the host release request issue
safeCmds == {"git add package.json", "git add CHANGELOG.md", "git add -A CHANGELOG-alpha.md",
             "git add -A .", "git commit", "git tag", "git push --follow-tags",
             "npm publish", "bower register", "POST releases", "safeRm -rf tmpFolder"}

preflightFailed ==
    \/ usageError
    \/ \E e \in Events : e.arg \in {"M file", "behind 1"}

\* C6: a missing bump kind and pre-release identifier (bumping not skipped,
\* not docs-only), a dirty tree or a branch behind its upstream end the
\* process with code 1 before the manifest is written and before any
\* add/commit/tag/push/publish/mirror command; --only-docs alone is not a
\* usage error.
C6_PreflightFailureMutatesNothing ==
    /\ preflightFailed =>
          /\ pc \in {"usage", "exit"}
          /\ exited => exitCode = 1
          /\ disk = start.disk /\ vcsUnchanged /\ registry = {}
          /\ \A e \in Events : e.cmd \in {"git diff-index", "git fetch", "git status -sb"}
    /\ (argv.onlyDocs /\ exited) => trace # <<>>

\* a run stopped because the branch is behind its upstream
C6_Witness ==
    /\ exited /\ exitCode = 1
    /\ \E e \in Events : e.arg = "behind 1"

mirrorSteps == <<"rm -rf tmpFolder", "git clone", "pushd", "rm all but .git", "cp -R",
                 "git add -A .", "git commit", "git tag", "git push --follow-tags",
                 "popd", "safeRm -rf tmpFolder">>

RECURSIVE stepsOf(_, _)
\* the commands of the entries of tr that belong to the mirror run of target t
stepsOf(tr, t) ==
    IF tr = <<>> THEN <<>>
    ELSE IF Head(tr).repo = t THEN <<Head(tr).cmd>> \o stepsOf(Tail(tr), t)
    ELSE stepsOf(Tail(tr), t)

isPrefix(a, b) == Len(a) <= Len(b) /\ a = SubSeq(b, 1, Len(a))

\* C7: every mirror run, for the bower and for the docs target alike, performs
\* delete scratch, clone, enter, delete all but .git, copy, git add -A .,
\* commit "Release <tag>", tag <tag> with message <tag>, push, leave, delete
\* scratch, in this order.
C7_MirrorStepsInOrder ==
    \A t \in Targets :
       /\ isPrefix(stepsOf(trace, t), mirrorSteps)
       /\ \A c \in {mirror[t].commits[i] : i \in 1..Len(mirror[t].commits)} :
             c.msg = newVersion
       /\ \A g \in mirror[t].tags : g.name = newVersion /\ g.msg = newVersion

\* a Live run that completed both mirror runs
C7_Witness ==
    /\ ~dryRunMode /\ exited /\ exitCode = 0
    /\ \A t \in Targets : /\ stepsOf(trace, t) = mirrorSteps
                          /\ Len(mirror[t].commits) = 1
                          /\ mirror[t].tags # {}

insideStep == {"npm_publish_alt", "npm_popd", "ad_add", "ad_commit", "ad_tag", "ad_push",
               "ad_leave"}

\* C10: the working directory is the repository root at the start of every
\* pipeline stage; after the alternate-root publish and after each mirror run
\* it has been restored, in Live and in DryRun mode.
C10_WorkingDirectoryRestored ==
    (pc \notin insideStep /\ ~exited) => (cwd = "repoRoot" /\ dirStack = <<>>)

\* a run back at the repository root after the alternate-root publish and both
\* mirror runs
C10_Witness ==
    /\ pc = "finish" /\ cwd = "repoRoot"
    /\ \E e \in Events : e.cmd = "npm publish" /\ e.dir = "altPkgRootFolder"
    /\ \A t \in Targets : \E e \in Events : e.repo = t /\ e.cmd = "popd"

\* C8: when the mirror routine has run twice against the same repository,
\* with different source contents of any names, the repository holds exactly
\* the source contents of the second run (next to its .git directory): no
\* file that only the first run contributed remains.
C8_SecondRunLeavesSecondSourceOnly ==
    (pc = "ad_leave" /\ ~dryRunMode /\ Len(mirror[call.target].commits) = 2)
        => mirror[call.target].files = srcContent[call.target]

\* the run consulted the configuration value name and found it val
Consulted(name, val) ==
    \E e \in Events : e.kind = "read" /\ e.cmd = name /\ e.arg = val

\* the main-repository command cmd was issued (executed, or printed in DryRun)
\* and did not fail
Did(cmd) ==
    \E e \in Events : e.repo = "main" /\ e.cmd = cmd /\ e.kind \in {"exec", "dry"} /\ e.ok

\* the mirror routine was entered for target t
mirrorStarted(t) == call.target = t \/ \E e \in Events : e.repo = t

succeeded == exited /\ exitCode = 0

preidEmpty == preid = UNDEFINED \/ preid = ""

\* C11: for a private package no run issues npm publish or starts the bower
\* or the docs mirror, while commit, tag and push are performed as usual.
C11_PrivateSkipsPublishing ==
    isPrivate =>
        /\ \A e \in Events : e.cmd # "npm publish" /\ e.repo = "main"
        /\ \A t \in Targets : ~mirrorStarted(t) /\ ~disk.tmp[t].exists
        /\ registry = {} /\ mirror = start.mirror
        /\ succeeded =>
              /\ Did("git commit") /\ Did("git tag") /\ Did("git push --follow-tags")
              /\ ~dryRunMode => (Len(remote.commits) = 1 /\ remote.tags # {})

\* a Live run of a private package that ended with status 0, its commit and
\* tag pushed, with a bower repository configured
C11_Witness ==
    /\ isPrivate /\ ~dryRunMode /\ succeeded
    /\ Ran("git push --follow-tags")
    /\ Consulted("bowerRepo", "set") /\ Consulted("docsRepo", "set")

C13_DocsOnlySkipsPublishing ==
    argv.onlyDocs =>
        /\ \A e \in Events :
              /\ e.cmd \notin {"POST releases", "npm publish", "bower register"}
              /\ e.repo # "bower"
        /\ ~mirrorStarted("bower")
        /\ request.state = "none" /\ registry = {}
        /\ succeeded =>
              /\ Did("git diff-index") /\ Did("git status -sb")
              /\ argv.skipVersionBumping \/ \E e \in Events : e.cmd = "resolve version"
              /\ newVersion # NULL
              /\ Did("git commit") /\ Did("git tag") /\ Did("git push --follow-tags")

\* a Live docs-only run that ran the tests and the docs build, pushed and
\* ended with status 0
C13_Witness ==
    /\ argv.onlyDocs /\ ~dryRunMode /\ succeeded
    /\ Ran("npm run test") /\ Ran("npm run docs-build")
    /\ Ran("git push --follow-tags")
    /\ newVersion.pre = <<Str("docs"), Num(0)>>

\* C14: a docs-only run of a non-private package with a docs repository
\* configured, in which every command succeeds, runs the docs mirror before
\* it ends.
C14_DocsOnlyRunPublishesDocs ==
    (argv.onlyDocs /\ ~isPrivate /\ Consulted("docsRepo", "set") /\ succeeded)
        => mirrorStarted("docs")

answered == request.state \in {"error", "Unauthorized", "published"}

\* C15: the outcome of the host release request (transport error,
\* Unauthorized, success) changes nothing but the request: it arrives when all
\* stages have run, the step that delivers it leaves files, repositories,
\* registry, log, position and exit status alone, and the process then exits
\* with status 0; without a token no request is made and the run goes on.
C15_ReleaseOutcomeIgnored ==
    /\ [](/\ answered => (pc \in {"returned", "exit"} /\ (exited => exitCode = 0))
          /\ Consulted("GITHUB_TOKEN", "unset") =>
                (request.state = "none" /\ \A e \in Events : e.cmd # "POST releases")
          /\ request.state # "none" => Consulted("GITHUB_TOKEN", "set"))
    /\ [][request'.state # request.state /\ request.state # "none" =>
             UNCHANGED <<pc, exitCode, trace, disk, gitVars, registry, mirror, cwd>>]_vars

\* a Live run that published to npm, got Unauthorized for its release request
\* and ended with status 0
C15_Witness ==
    /\ succeeded /\ request.state = "Unauthorized"
    /\ Ran("npm publish")

\* the log positions of the publishing commands: npm publish and mirror steps
publishAt ==
    {i \in 1..Len(trace) : trace[i].cmd = "npm publish" \/ trace[i].repo \in Targets}

releasePushed ==
    /\ Len(commits) = 1 /\ tags # {}
    /\ remote = [commits |-> commits, tags |-> tags]

\* C16: in Live mode npm publish and every mirror step come after the
\* successful push of the release commit and tag; when npm publish or a mirror
\* command fails the process exits with code 1, no git reset or git checkout
\* is run, and the pushed commit and tag stay.
C16_PublishAfterPushNoRollback ==
    ~dryRunMode =>
        /\ publishAt # {} =>
              /\ releasePushed
              /\ \E j \in 1..Len(trace) :
                    /\ trace[j].cmd = "git push --follow-tags" /\ trace[j].repo = "main"
                    /\ trace[j].kind = "exec" /\ trace[j].ok
                    /\ \A i \in publishAt : j < i
        /\ (\E i \in publishAt : ~trace[i].ok) =>
              /\ exited /\ exitCode = 1
              /\ \A e \in Events : e.cmd \notin revertCmds
              /\ releasePushed

\* a Live run that published to npm and then failed in the docs mirror
C16_Witness ==
    /\ ~dryRunMode /\ exited /\ exitCode = 1
    /\ Ran("npm publish")
    /\ \E e \in Events : e.repo = "docs" /\ ~e.ok
    /\ releasePushed

\* log positions of the commands that failed; the gate commands are run by
\* exec directly, all others by run
failedAt(tolerated) ==
    {i \in 1..Len(trace) :
        /\ trace[i].kind = "exec" /\ ~trace[i].ok
        /\ trace[i].cmd \notin gateCmds \cup tolerated}

wordRank(w) == CASE w = "alpha" -> 1 [] w = "beta" -> 2 [] w = "docs" -> 3 [] OTHER -> 0

idLess(a, b) ==
    IF a.isNum /\ b.isNum THEN a.n < b.n
    ELSE IF a.isNum # b.isNum THEN a.isNum
    ELSE wordRank(a.s) < wordRank(b.s)

RECURSIVE preLess(_, _)
preLess(p, q) ==
    IF p = <<>> THEN q # <<>>
    ELSE IF q = <<>> THEN FALSE
    ELSE IF Head(p) = Head(q) THEN preLess(Tail(p), Tail(q))
    ELSE idLess(Head(p), Head(q))

\* a precedes b in semantic-version order
semverLess(a, b) ==
    IF a.major # b.major THEN a.major < b.major
    ELSE IF a.minor # b.minor THEN a.minor < b.minor
    ELSE IF a.patch # b.patch THEN a.patch < b.patch
    ELSE IF a.pre = <<>> THEN FALSE
    ELSE IF b.pre = <<>> THEN TRUE
    ELSE preLess(a.pre, b.pre)

\* the version in the manifest when the process started
currentVersion == start.disk.pkg.version

\* the run has resolved its version
resolved == \E e \in Events : e.cmd = "resolve version"

\* C17: for a valid current version, a bump kind major, minor or patch and any
\* pre-release identifier, the resolved version is greater than the current
\* version.
C17_BumpIncreasesVersion ==
    (resolved /\ argv.type \in {"major", "minor", "patch"} /\ isValid(currentVersion))
        => (isValid(newVersion) /\ semverLess(currentVersion, newVersion))

\* C18: without a bump kind and with a pre-release identifier, the resolved
\* version keeps major.minor.patch of the current version; from a version
\* without a pre-release segment it is <current>-<preid>.0, and resolving
\* again on the result only raises the counter by one.
C18_PreidKeepsBaseAndCounts ==
    (resolved /\ argv.type = UNDEFINED /\ ~preidEmpty) =>
        /\ isValid(newVersion)
        /\ newVersion.major = currentVersion.major
        /\ newVersion.minor = currentVersion.minor
        /\ newVersion.patch = currentVersion.patch
        /\ currentVersion.pre = <<>> => newVersion.pre = <<Str(preid), Num(0)>>
        /\ start.commits # <<>> =>
              /\ Len(currentVersion.pre) = 2
              /\ newVersion.pre = <<Str(preid), Num(currentVersion.pre[2].n + 1)>>
              /\ currentVersion.pre[1] = Str(preid)

\* the second release in a row with --preid beta, from 2.0.0-beta.0 to
\* 2.0.0-beta.1
C18_Witness ==
    /\ resolved /\ argv.type = UNDEFINED /\ argv.preid = "beta" /\ ~argv.onlyDocs
    /\ start.commits # <<>>
    /\ currentVersion = SemVer(2, 0, 0, <<Str("beta"), Num(0)>>)
    /\ newVersion = SemVer(2, 0, 0, <<Str("beta"), Num(1)>>)

\* C19: in a run past the version resolution the version of the release is a
\* valid semantic version and, when the effective pre-release identifier is
\* set, carries a pre-release segment that begins with it.
C19_ReleaseVersionValid ==
    (pc \notin {"usage", "clean", "fetch", "bump"} /\ newVersion # NULL) =>
        /\ isValid(newVersion)
        /\ ~preidEmpty => (newVersion.pre # <<>> /\ newVersion.pre[1] = Str(preid))

\* the log position of the first entry of command cmd, 0 when there is none
firstAt(cmd) ==
    IF \E i \in 1..Len(trace) : trace[i].cmd = cmd
    THEN CHOOSE i \in 1..Len(trace) :
            trace[i].cmd = cmd /\ \A j \in 1..(i - 1) : trace[j].cmd # cmd
    ELSE 0

\* C21: in the script of the README step list npm run test runs and succeeds
\* before the version is bumped: a failing test ends the run with code 1, the
\* manifest never written, nothing staged and no revert command run; the
\* revert commands are run only after a failed build, which comes after the
\* manifest was written.
C21_TestBeforeBump ==
    /\ firstAt("write package.json") # 0 =>
          /\ firstAt("npm run test") # 0
          /\ firstAt("npm run test") < firstAt("write package.json")
          /\ trace[firstAt("npm run test")].ok
    /\ Failed({"npm run test"}) =>
          /\ exited /\ exitCode = 1
          /\ disk = start.disk /\ vcsUnchanged /\ npmjson = start.disk.pkg
          /\ trace[Len(trace)].cmd = "npm run test"
    /\ (\E e \in Events : e.cmd \in revertCmds) =>
          /\ Failed({"npm run build"})
          /\ firstAt("write package.json") < firstAt("npm run build")
          /\ firstAt("npm run build") < firstAt("git reset HEAD .")
    /\ (Failed({"npm run build"}) /\ exited) =>
          (exitCode = 1 /\ Ran("git reset HEAD ."))

\* a Live run whose tests passed, which wrote and staged the bumped manifest,
\* failed in the build and reverted the bump
C21_Witness ==
    /\ pc = "exit" /\ ~dryRunMode /\ exitCode = 1
    /\ \E e \in Events : e.cmd = "npm run test" /\ e.ok
    /\ Failed({"npm run build"}) /\ Ran("git checkout package.json")
    /\ Ran("git add package.json")
    /\ npmjson.version # start.disk.pkg.version
    /\ manifestRestored
    /\ firstAt("git fetch") # 0 /\ firstAt("git status -sb") = 0

\* the run has come to the documents stage
docsStageReached ==
    pc \in {"docs", "finish", "returned"} \/ Consulted("docsRepo", "set")
        \/ Consulted("docsRepo", "unset")

\* C22: in Live and in DryRun mode alike, once the bower registration command
\* was issued (failed, duplicate, successful or only planned) the run goes on
\* to the documents stage, and it ends with status 0 unless a command of the
\* docs mirror fails.
C22_RegistrationIsBestEffort ==
    (\E e \in Events : e.cmd = "bower register") =>
        /\ docsStageReached
        /\ (exited /\ \A e \in Events : e.repo = "docs" => e.ok) => exitCode = 0

Issued(cmd) == \E e \in Events : e.cmd = cmd /\ e.kind \in {"exec", "dry"}

\* the run has passed the test and build stages and composed its notes
pastGate == versionAndNotes # NoTitle

\* the step appends an entry of command cmd to the log
appended(cmd) == \E i \in (Len(trace) + 1)..Len(trace') : trace'[i].cmd = cmd

skipReported == \E e \in Events : e.kind = "log" /\ e.cmd = "Skipping npm run build step"

\* the state part of C23: no build command after a failed test, and the
\* report of a skipped build comes with no failure and no revert
gateOutcome ==
    /\ Failed({"npm run test"}) =>
          (~Issued("npm run docs-build") /\ ~Issued("npm run build") /\ ~skipReported)
    /\ skipReported =>
          /\ ~Failed(gateCmds) /\ \A e \in Events : e.cmd \notin revertCmds
          /\ ~Issued("npm run docs-build") /\ ~Issued("npm run build")

\* C23 (as stated): no build command is run after a failed test, and a run
\* that passed the build stage without a build command has reported the stage
\* as skipped and has run no revert command.
C23_GateChoice ==
    /\ gateOutcome
    /\ (pastGate /\ ~Issued("npm run docs-build") /\ ~Issued("npm run build")) =>
          (skipReported /\ \A e \in Events : e.cmd \notin revertCmds)

\* the test step, for a manifest with (hasScripts) or without a scripts
\* section, with or without a test script, with or without --skip-tests
testStepFollows(hasScripts, hasTest, skipTests) ==
    /\ appended("npm run test") <=> (hasScripts /\ hasTest /\ ~skipTests)
    /\ ~hasScripts => (trace' = trace /\ pc' = "notes")
    /\ (hasScripts /\ ~appended("npm run test")) => (trace' = trace /\ pc' = "build")

\* the build step, with or without a docs-build script, a build script and
\* the skipBuildStep option
buildStepFollows(docsBuild, hasBuild, skipBuildStep) ==
    LET docs == argv.onlyDocs /\ docsBuild
        build == ~docs /\ hasBuild /\ ~skipBuildStep
    IN  /\ appended("npm run docs-build") <=> docs
        /\ appended("npm run build") <=> build
        /\ appended("Skipping npm run build step") <=> (~docs /\ ~build)
        /\ (~docs /\ ~build) => (pc' = "notes" /\ Len(trace') = Len(trace) + 1)

\* C23 (amended): npm run test is run if and only if a test script is declared
\* and --skip-tests is not given; the build stage runs npm run docs-build if
\* the run is docs-only and a docs-build script exists, otherwise npm run
\* build if a build script exists and skipBuildStep is not set, otherwise
\* nothing, and then reports the stage as skipped, with no failure and no
\* revert; without a scripts section neither test nor build is run and
\* nothing is reported; no build command is run after a failed test.
C23_GateChoiceReportedWithScripts ==
    /\ [](/\ gateOutcome
          /\ (pastGate /\ ~Issued("npm run docs-build") /\ ~Issued("npm run build")) =>
                \A e \in Events : e.cmd \notin revertCmds)
    /\ [][/\ \A hasScripts, hasTest, skipTests, ok \in BOOLEAN :
                RunTest(hasScripts, hasTest, skipTests, ok)
                    => testStepFollows(hasScripts, hasTest, skipTests)
          /\ \A docsBuild, hasBuild, skipBuildStep, ok \in BOOLEAN :
                RunBuild(docsBuild, hasBuild, skipBuildStep, ok)
                    => buildStepFollows(docsBuild, hasBuild, skipBuildStep)]_vars

\* a docs-only run that ran no test, no docs-build and no build command,
\* reported the build stage as skipped and ended with status 0
C23_Witness ==
    /\ argv.onlyDocs /\ succeeded
    /\ \A e \in Events : e.cmd \notin gateCmds
    /\ skipReported

\* C24: with --skip-version-bumping the release version is the current version
\* as it is, the manifest is not written and git add package.json is not
\* issued; the run still goes through commit, tag, push and publishing, and
\* the commit, the tag and the published package carry the current version.
C24_SkipBumpKeepsManifest ==
    argv.skipVersionBumping =>
        /\ newVersion \in {NULL, currentVersion}
        /\ npmjson.version = currentVersion
        /\ disk.pkg = start.disk.pkg /\ index.pkg = start.tree.pkg
        /\ \A e \in Events :
              e.cmd \notin {"resolve version", "write package.json", "git add package.json"}
        /\ \A g \in tags : g.name = currentVersion
        /\ \A i \in 1..Len(commits) : commits[i].msg = currentVersion
        /\ \A r \in registry : r.pkg.version = currentVersion
        /\ succeeded =>
              /\ newVersion = currentVersion
              /\ Did("git commit") /\ Did("git tag") /\ Did("git push --follow-tags")
              /\ (~isPrivate /\ ~argv.onlyDocs) => Did("npm publish")
              /\ ~dryRunMode => (tags # {} /\ remote.tags = tags /\ Len(remote.commits) = 1)

\* a Live run with --skip-version-bumping that tagged, pushed and published
\* the current version and ended with status 0
C24_Witness ==
    /\ argv.skipVersionBumping /\ ~dryRunMode /\ succeeded
    /\ Ran("npm publish") /\ Ran("git push --follow-tags")
    /\ \E g \in remote.tags : g.name = currentVersion
    /\ \E r \in registry : r.pkg.version = currentVersion

\* the publish step with --tag value tag: the entry it appends
publishStepFollows(tag) ==
    LET e == trace'[Len(trace')]
    IN  /\ Len(trace') = Len(trace) + 1 /\ e.cmd = "npm publish"
        /\ e.arg # "" <=> ~preidEmpty
        /\ (~preidEmpty /\ tag # UNDEFINED) => e.arg = tag
        /\ (~preidEmpty /\ tag = UNDEFINED) => e.arg = preid
        /\ preidEmpty => e.arg = ""

\* C25: the npm publish command carries a distribution tag if and only if a
\* pre-release identifier is in effect; the tag is then the --tag value when
\* one is given and the identifier otherwise, and without an identifier the
\* command is the plain npm publish whatever --tag is.
C25_DistributionTag ==
    /\ [](/\ \A r \in registry : r.distTag = "" <=> preidEmpty
          /\ \A e \in Events : e.cmd = "npm publish" => (e.arg = "" <=> preidEmpty))
    /\ [][\A tag \in NpmTags, ok \in BOOLEAN : NpmPublish(tag, ok) => publishStepFollows(tag)]_vars

\* a Live pre-release run with --preid beta and --tag canary that published
\* the package under the distribution tag canary and ended with status 0
C25_Witness ==
    /\ ~dryRunMode /\ succeeded /\ preid = "beta"
    /\ \E e \in Events : e.cmd = "npm publish" /\ e.kind = "exec" /\ e.arg = "canary"
    /\ \E r \in registry : r.distTag = "canary"

changelogCmds == {"rm CHANGELOG-alpha.md", "changelog --out", "git add CHANGELOG.md",
                  "git add -A CHANGELOG-alpha.md", "changelog -s"}

\* the changelog was generated
generated == \E e \in Events : e.cmd = "changelog --out" /\ e.ok

\* the run is not a pre-release and found a pre-release changelog file
staleAlpha == preidEmpty /\ start.disk.changelogAlpha.exists

\* C26: the changelog stage runs only when the project uses the changelog
\* convention; it writes the pre-release changelog file when a pre-release
\* identifier is set and the primary file, with --exclude-pre-releases,
\* otherwise; in a run without identifier a pre-release changelog file that
\* exists is deleted before the generation and the deletion is staged before
\* the commit, so that after a Live run the file is neither in the working
\* tree nor in the release commit.
C26_ChangelogStage ==
    /\ ~isCommitsChangelogUsed =>
          /\ \A e \in Events : e.cmd \notin changelogCmds
          /\ disk.changelog = start.disk.changelog
          /\ disk.changelogAlpha = start.disk.changelogAlpha
    /\ generated =>
          IF preidEmpty
          THEN /\ disk.changelog = Generated(versionAndNotes, "--exclude-pre-releases")
               /\ ~disk.changelogAlpha.exists
          ELSE /\ disk.changelogAlpha = Generated(versionAndNotes, "")
               /\ disk.changelog = start.disk.changelog
    /\ (staleAlpha /\ firstAt("changelog --out") # 0) =>
          /\ firstAt("rm CHANGELOG-alpha.md") # 0
          /\ firstAt("rm CHANGELOG-alpha.md") < firstAt("changelog --out")
          /\ ~disk.changelogAlpha.exists
    /\ (staleAlpha /\ isCommitsChangelogUsed /\ firstAt("git commit") # 0) =>
          /\ firstAt("git add -A CHANGELOG-alpha.md") # 0
          /\ firstAt("git add -A CHANGELOG-alpha.md") < firstAt("git commit")
    /\ (staleAlpha /\ isCommitsChangelogUsed /\ ~dryRunMode /\ succeeded) =>
          /\ ~disk.changelogAlpha.exists
          /\ ~head.changelogAlpha.exists
          /\ Len(commits) = 1 /\ ~commits[1].tree.changelogAlpha.exists
          /\ commits[1].tree.changelog = disk.changelog

\* a Live run without identifier that found a pre-release changelog file,
\* ended with status 0 and committed its deletion with the new changelog
C26_Witness ==
    /\ staleAlpha /\ isCommitsChangelogUsed /\ ~dryRunMode /\ succeeded
    /\ head.changelogAlpha = NoFile /\ disk.changelogAlpha = NoFile
    /\ start.tree.changelogAlpha = OrigFile
    /\ head.changelog = Generated(versionAndNotes, "--exclude-pre-releases")

\* every place of the release that carries the version tag holds v
carriedEverywhere(v) ==
    /\ versionAndNotes # NoTitle => versionAndNotes.v = v
    /\ \A i \in 1..Len(commits) : commits[i].msg = v /\ commits[i].tree.pkg.version = v
    /\ \A g \in tags \cup remote.tags : g.name = v /\ g.msg.title.v = v
    /\ request.state # "none" => (request.tag_name = v /\ request.body.title.v = v)
    /\ call.target # "none" => call.vVersion = v
    /\ \A t \in Targets :
          /\ \A i \in 1..Len(mirror[t].commits) : mirror[t].commits[i].msg = v
          /\ \A g \in mirror[t].tags : g.name = v /\ g.msg = v
          /\ \A i \in 1..Len(disk.tmp[t].ahead) : disk.tmp[t].ahead[i].msg = v
          /\ \A g \in disk.tmp[t].tags : g.name = v /\ g.msg = v
    /\ \A r \in registry : r.pkg.version = v

\* C27: the new version is computed once per run and never changes: once it
\* has a value no step gives it another, and the release commit, the tag of
\* the main repository, the host release request and the commit and tag of
\* every mirror run carry that one value.
C27_OneVersionPerRun ==
    /\ [](/\ carriedEverywhere(newVersion)
          /\ newVersion = NULL =>
                (commits = <<>> /\ tags = {} /\ request.state = "none" /\ round = 0))
    /\ [][newVersion # NULL => newVersion' = newVersion]_vars

\* a Live run that bumped the version, sent the host release request and
\* completed both mirror runs
C27_Witness ==
    /\ ~dryRunMode /\ succeeded
    /\ newVersion # currentVersion
    /\ Len(commits) = 1 /\ tags # {}
    /\ request.state # "none"
    /\ \A t \in Targets : Len(mirror[t].commits) = 1 /\ mirror[t].tags # {}

manifestWritten == firstAt("write package.json") # 0

\* C28: git reset HEAD . and git checkout package.json are run only after a
\* failed test, docs-build or build command; a run that ends with code 1
\* after the manifest was written, for any other reason (git add, changelog,
\* commit, tag, push, npm publish, a mirror command), leaves the manifest on
\* disk with the new version.
C28_RollbackOnlyForGate ==
    /\ \A i \in 1..Len(trace) :
          trace[i].cmd \in revertCmds =>
              \E j \in 1..(i - 1) : trace[j].cmd \in gateCmds /\ ~trace[j].ok
    /\ (manifestWritten /\ ~Failed(gateCmds)) =>
          disk.pkg.version = newVersion
    /\ (manifestWritten /\ exited /\ exitCode = 1 /\ ~Failed(gateCmds)) =>
          \A e \in Events : e.cmd \notin revertCmds

\* a Live run that wrote the bumped manifest, passed the gate, failed at the
\* push and ended with code 1, the manifest still bumped
C28_Witness ==
    /\ ~dryRunMode /\ exited /\ exitCode = 1
    /\ manifestWritten /\ Ran("npm run test") /\ ~Failed(gateCmds)
    /\ Failed({"git push --follow-tags"})
    /\ disk.pkg.version = newVersion /\ newVersion # currentVersion
    /\ isValid(newVersion)

\* the response callback can run now
callbackEnabled == ENABLED (\E outcome \in {"error", "Unauthorized", "published"} :
                               GithubCallback(outcome))

\* the host release request precedes the npm publish command
requestBeforePublish ==
    \A i, j \in 1..Len(trace) :
       (trace[i].cmd = "POST releases" /\ trace[j].cmd = "npm publish") => i < j

\* C29 (as stated): the host release request is fired before npm publish, and
\* its response callback may run at any point after the request, as long as
\* the process has not exited.
C29_CallbackAtAnyPoint ==
    /\ requestBeforePublish
    /\ (request.state = "inflight" /\ ~exited) => callbackEnabled

\* C29 (amended): the host release request is fired before npm publish and
\* the stages after it run without waiting for the response; the response
\* callback runs only when release() has returned, or not at all when the run
\* exits with code 1 before; a run that ends with status 0 has had its
\* response; the callback changes nothing but the request, so commands and
\* exit status do not depend on its outcome.
C29_CallbackAfterReturnOnly ==
    /\ [](/\ requestBeforePublish
          /\ callbackEnabled <=> (request.state = "inflight" /\ pc = "returned")
          /\ answered => (pc \in {"returned", "exit"} /\ (exited => exitCode = 0))
          /\ (exited /\ request.state = "inflight") => exitCode = 1)
    /\ [][(\E outcome \in {"error", "Unauthorized", "published"} : GithubCallback(outcome))
             => UNCHANGED <<pc, exitCode, trace, disk, index, head, commits, tags, remote,
                            registry, mirror, cwd, dirStack, npmjson, newVersion, call>>]_vars

\* a Live run that published to npm with the request in flight and then
\* ended with code 1 in the bower mirror, the response never delivered
C29_Witness ==
    /\ exited /\ exitCode = 1 /\ request.state = "inflight"
    /\ Ran("npm publish") /\ registry # {}
    /\ \E e \in Events : e.repo = "bower" /\ ~e.ok

\* the log positions of the writes of file name
writesOf(name) == {i \in 1..Len(trace) : trace[i].cmd = "write " \o name}

\* file a holds the fields of file b, but for the version
sameButVersion(a, b) == a.exists = b.exists /\ a.base = b.base

parametersSet ==
    /\ truthy(call.repo) /\ truthy(call.srcFolder) /\ truthy(call.tmpFolder)
    /\ ~vVersionEmpty("v", call.vVersion)

\* C31: the parameter guard of the mirror routine is never triggered by the
\* orchestrator: every call passes a repository URL, a source folder, a
\* scratch folder and a version tag that are all non-empty, whatever the
\* options of the manifest are, and the routine always goes on past the guard
C31_GuardNeverTriggered ==
    /\ [](call.target # "none" => parametersSet)
    /\ [][AdReset => pc' = "ad_clone"]_vars

\* both mirrors were released in one run, the bower one from folders the
\* manifest names and the docs one from the default folders
C31_Witness ==
    /\ pc = "ad_clone" /\ call.target = "docs" /\ round = 2
    /\ call.srcFolder = pathJoin(repoRoot, "docs-built/")
    /\ call.tmpFolder = pathJoin(repoRoot, "tmp-docs-repo")
    /\ \E e \in Events : /\ e.cmd = "git add -A ." /\ e.repo = "bower"
                          /\ e.dir = pathJoin(repoRoot, "custom")

====
